---- MODULE Spec2Model ----
(***************************************************************************)
(* State-machine model of the Qobuz label crawler                          *)
(* (src/qobuzScraper/index.js, invoked from src/main.js).                  *)
(*                                                                         *)
(* One run of runQobuzScraper is modelled from its invocation to the value *)
(* the IPC handler returns.  The JavaScript between two awaits runs to     *)
(* completion, so the actions are cut at the awaits: the limiter jobs,     *)
(* the HTTP requests and the backoff sleeps.  Files, server answers and    *)
(* page contents are inputs drawn from bounded sets.                       *)
(*                                                                         *)
(* Representation:                                                         *)
(*   - a Date is the natural number DateKey(d, m, y); the key is strictly  *)
(*     monotone in the calendar order, as getTime() is;                    *)
(*   - a text is a sequence of one-character strings;                      *)
(*   - delay_listing / delay_album are fixed-point numbers, FxScale units  *)
(*     per second (350 stands for 0.35 s); times are in milliseconds.      *)
(***************************************************************************)
EXTENDS Integers, Sequences, FiniteSets, TLC

VARIABLES
    world,       \* the slice of the input space this run is taken from
    pc,          \* position of runQobuzScraper / of the IPC handler
    dryRun,      \* the dryRun option of the invocation
    cfg,         \* config returned by parseInputConfig (NoCfg before)
    labels,      \* labels returned by parseLabelsFile
    stats,       \* the stats counter bag
    i,           \* label loop index (1-based)
    page,        \* listing page loop variable
    candidates,  \* candidates array
    seenByLabelUrl, \* set of album_url||label_name keys
    k,           \* album loop index (1-based)
    accepted,    \* accepted array
    missingRows, \* rows of the missing-date report
    dedup,       \* deduplicated records
    files,       \* output artifacts on disk
    progress,    \* progress events emitted so far
    result,      \* value returned to the IPC caller
    lane,        \* the two Bottleneck limiters
    fetchSt,     \* the fetchHtml call running as the job of each lane
    awaiting,    \* the job whose promise the run awaits
    settled,     \* job id -> value its promise resolved with
    nextJob,     \* next job id
    hist         \* observation variables (what happened, for the properties)

vars == <<world, pc, dryRun, cfg, labels, stats, i, page, candidates, seenByLabelUrl,
          k, accepted, missingRows, dedup, files, progress, result, lane,
          fetchSt, awaiting, settled, nextJob, hist>>

----------------------------------------------------------------------------
(* Bounds of the model *)

MaxRetries == 2

MaxPages == 2

MaxLinks == 2

MaxDelaySec == 1

\* the largest number of labels, and of candidates, for which the percent
\* formulas are evaluated on their own
MaxTotal == 40

\* the largest number of ancestors an anchor of a listing page has
MaxDepth == 11

----------------------------------------------------------------------------
(* Program constants *)

DefaultMinMinutes == 15

DefaultMaxPages == 2

DefaultRetries == 3

DefaultTimeoutMs == 20000

DefaultDelayListingFx == 350

DefaultDelayAlbumFx == 550

MinTimeoutMs == 1000

RateLimitBaseMs == 2000

ServerErrorBaseMs == 1000

NetworkErrorBaseMs == 1000

LimiterMaxConcurrent == 1

\* maxHops of extractListingReleaseDateForLink
MaxHopsDefault == 10

MsPerSecond == 1000

\* fixed-point scale of the delay values: one unit is a millisecond
FxScale == MsPerSecond

\* granularity with which the model lets time pass
TickMs == MsPerSecond

Max(a, b) == IF a >= b THEN a ELSE b

Min(a, b) == IF a <= b THEN a ELSE b

RECURSIVE Pow2(_)
Pow2(n) == IF n <= 0 THEN 1 ELSE 2 * Pow2(n - 1)

----------------------------------------------------------------------------
(* Dates *)

DateKey(d, m, y) == (y * 12 + (m - 1)) * 31 + (d - 1)

IsLeap(y) == (y % 4 = 0 /\ y % 100 # 0) \/ y % 400 = 0

DaysInMonth(m, y) ==
    IF m = 2 THEN (IF IsLeap(y) THEN 29 ELSE 28)
    ELSE IF m \in {4, 6, 9, 11} THEN 30 ELSE 31

\* new Date(Date.UTC(year, month - 1, day)) read back gives the same
\* year/month/day: the day exists in the calendar, and the year is not one of
\* 0..99, which Date.UTC maps to 1900..1999.
UtcRoundTrips(d, m, y) ==
    /\ y >= 100
    /\ m \in 1..12
    /\ d \in 1..DaysInMonth(m, y)

\* A date value of the config file: absent, not of the form DD.MM.YYYY, or
\* the three numbers of a DD.MM.YYYY text.
RawAbsent == [kind |-> "absent", d |-> 0, m |-> 0, y |-> 0]

RawMalformed == [kind |-> "malformed", d |-> 0, m |-> 0, y |-> 0]

RawDate(d, m, y) == [kind |-> "dmy", d |-> d, m |-> m, y |-> y]

\* parsePlDate: [ok, code, date]
parsePlDate(raw) ==
    IF raw.kind # "dmy"
    THEN [ok |-> FALSE, code |-> "INVALID_DATE_FORMAT", date |-> 0]
    ELSE IF ~UtcRoundTrips(raw.d, raw.m, raw.y)
    THEN [ok |-> FALSE, code |-> "INVALID_DATE_FORMAT", date |-> 0]
    ELSE [ok |-> TRUE, code |-> "", date |-> DateKey(raw.d, raw.m, raw.y)]

\* the decimal digits as characters
DigitChars == <<"0", "1", "2", "3", "4", "5", "6", "7", "8", "9">>

DigitOf(n) == DigitChars[n + 1]

IsDigit(c) == \E n \in 0..9 : DigitChars[n + 1] = c

DigitValue(c) == CHOOSE n \in 0..9 : DigitChars[n + 1] = c

\* String(n) for a natural number: its decimal digits, no padding
RECURSIVE NumberText(_)
NumberText(n) ==
    IF n < 10 THEN <<DigitOf(n)>>
    ELSE NumberText(n \div 10) \o <<DigitOf(n % 10)>>

\* String(n).padStart(2, "0")
padStart2(n) ==
    IF Len(NumberText(n)) < 2 THEN <<"0">> \o NumberText(n) ELSE NumberText(n)

\* the UTC fields of a date (getUTCMonth counts from 0)
getUTCDate(date) == (date % 31) + 1

getUTCMonth(date) == (date \div 31) % 12

getUTCFullYear(date) == date \div (31 * 12)

\* formatPlDate: day and month padded to two digits, the year as it is
formatPlDate(date) ==
    padStart2(getUTCDate(date)) \o <<".">>
    \o padStart2(getUTCMonth(date) + 1) \o <<".">>
    \o NumberText(getUTCFullYear(date))

\* the match of /^(\d{2})\.(\d{2})\.(\d{4})$/ on a text without outer
\* white space: the three numbers, or no match
MatchPlDate(text) ==
    IF /\ Len(text) = 10
       /\ text[3] = "." /\ text[6] = "."
       /\ \A n \in {1, 2, 4, 5, 7, 8, 9, 10} : IsDigit(text[n])
    THEN RawDate(DigitValue(text[1]) * 10 + DigitValue(text[2]),
                 DigitValue(text[4]) * 10 + DigitValue(text[5]),
                 DigitValue(text[7]) * 1000 + DigitValue(text[8]) * 100
                 + DigitValue(text[9]) * 10 + DigitValue(text[10]))
    ELSE RawMalformed

----------------------------------------------------------------------------
(* Config file (FILES/plik_wejsciowy.txt) and parseInputConfig *)

\* A numeric value of the config file: the key is absent, its text is not a
\* number, or it is the number val.
NumAbsent == [kind |-> "absent", val |-> 0]

NumNaN == [kind |-> "nan", val |-> 0]

Num(n) == [kind |-> "num", val |-> n]

\* DEFAULTS, the delays in fixed point
DEFAULTS ==
    [min_minutes |-> DefaultMinMinutes,
     delay_listing |-> DefaultDelayListingFx,
     delay_album |-> DefaultDelayAlbumFx,
     max_pages_per_label |-> DefaultMaxPages,
     retries |-> DefaultRetries,
     timeout_ms |-> DefaultTimeoutMs,
     genre_root |-> <<"C", "l", "a", "s", "s", "i", "c", "a", "l">>]

\* numSpec: key and minimum, in the order the loop validates them
numSpec ==
    << [key |-> "min_minutes", min |-> 1],
       [key |-> "delay_listing", min |-> 0],
       [key |-> "delay_album", min |-> 0],
       [key |-> "max_pages_per_label", min |-> 1],
       [key |-> "retries", min |-> 0],
       [key |-> "timeout_ms", min |-> MinTimeoutMs] >>

\* the value config[key] holds before the numeric loop: {...DEFAULTS, ...parsed}
MergedValue(file, key) ==
    IF file[key].kind = "absent" THEN Num(DEFAULTS[key]) ELSE file[key]

\* one iteration of the numeric loop: "" or the error code it throws
NumError(file, spec) ==
    LET v == MergedValue(file, spec.key) IN
    IF v.kind = "nan" THEN "INVALID_NUMERIC_VALUE"
    ELSE IF v.val < spec.min THEN "VALUE_OUT_OF_RANGE"
    ELSE ""

FirstNumError(file) ==
    LET bad == {n \in 1..Len(numSpec) : NumError(file, numSpec[n]) # ""} IN
    IF bad = {} THEN ""
    ELSE NumError(file, numSpec[CHOOSE n \in bad : \A o \in bad : n <= o])

NoCfg ==
    [date_from |-> 0, date_to |-> 0, min_minutes |-> 0, delay_listing |-> 0,
     delay_album |-> 0, max_pages_per_label |-> 0, retries |-> 0,
     timeout_ms |-> 0, genre_root |-> <<>>]

Failure(code) == [ok |-> FALSE, code |-> code, config |-> NoCfg]

\* (mutant) the dates kept as the file gives them
SwapNever(from, to) == FALSE

\* line 188: the two dates are exchanged
SwapNeeded(from, to) == from > to

\* parseInputConfig: [ok, code, config]
parseInputConfig(file) ==
    IF ~file.exists THEN Failure("INPUT_FILE_NOT_FOUND")
    ELSE IF file.badLine THEN Failure("INVALID_INPUT_LINE")
    ELSE IF file.date_from.kind = "absent" \/ file.date_to.kind = "absent"
    THEN Failure("MISSING_REQUIRED_KEYS")
    ELSE
    LET from == parsePlDate(file.date_from)
        to == parsePlDate(file.date_to)
    IN
    IF ~from.ok THEN Failure(from.code)
    ELSE IF ~to.ok THEN Failure(to.code)
    ELSE IF FirstNumError(file) # "" THEN Failure(FirstNumError(file))
    ELSE
    LET swap == SwapNeeded(from.date, to.date) IN
    [ok |-> TRUE, code |-> "",
     config |->
        [date_from |-> IF swap THEN to.date ELSE from.date,
         date_to |-> IF swap THEN from.date ELSE to.date,
         min_minutes |-> MergedValue(file, "min_minutes").val,
         delay_listing |-> MergedValue(file, "delay_listing").val,
         delay_album |-> MergedValue(file, "delay_album").val,
         max_pages_per_label |-> MergedValue(file, "max_pages_per_label").val,
         retries |-> MergedValue(file, "retries").val,
         timeout_ms |-> MergedValue(file, "timeout_ms").val,
         genre_root |-> DEFAULTS.genre_root]]

----------------------------------------------------------------------------
(* Labels file and parseLabelsFile *)

\* A line of the labels file once comments are cut and it is trimmed:
\* blank, or a text with or without the separator " - ", a name (possibly
\* empty), and a URL that does or does not start with http(s):// and that
\* new URL() does or does not accept.
BlankLine ==
    [blank |-> TRUE, hasSep |-> FALSE, name |-> <<>>, http |-> FALSE,
     parsable |-> FALSE, url |-> ""]

LabelLine(name, url) ==
    [blank |-> FALSE, hasSep |-> TRUE, name |-> name, http |-> TRUE,
     parsable |-> TRUE, url |-> url]

LineError(line) ==
    IF line.blank THEN ""
    ELSE IF ~line.hasSep THEN "INVALID_LABELS_LINE"
    ELSE IF line.name = <<>> \/ ~line.http THEN "INVALID_LABELS_LINE"
    ELSE ""

RECURSIVE LabelsOf(_)
LabelsOf(lines) ==
    IF lines = <<>> THEN <<>>
    ELSE IF Head(lines).blank THEN LabelsOf(Tail(lines))
    ELSE << [name |-> Head(lines).name, url |-> Head(lines).url,
             parsable |-> Head(lines).parsable] >> \o LabelsOf(Tail(lines))

\* (mutant) a parser that skips the lines it cannot read
parseLabelsFileLenient(file) ==
    IF ~file.exists
    THEN [ok |-> FALSE, code |-> "LABELS_FILE_NOT_FOUND", labels |-> <<>>]
    ELSE [ok |-> TRUE, code |-> "",
          labels |-> LabelsOf(SelectSeq(file.lines,
                                        LAMBDA ln : LineError(ln) = ""))]

\* parseLabelsFile: [ok, code, labels]
parseLabelsFile(file) ==
    IF ~file.exists
    THEN [ok |-> FALSE, code |-> "LABELS_FILE_NOT_FOUND", labels |-> <<>>]
    ELSE IF \E n \in 1..Len(file.lines) : LineError(file.lines[n]) # ""
    THEN [ok |-> FALSE, code |-> "INVALID_LABELS_LINE", labels |-> <<>>]
    ELSE [ok |-> TRUE, code |-> "", labels |-> LabelsOf(file.lines)]

----------------------------------------------------------------------------
(* Texts *)

IsSpace(c) == c = " "

LowerChar(c) ==
    CASE c = "A" -> "a"
      [] c = "B" -> "b"
      [] c = "C" -> "c"
      [] c = "I" -> "i"
      [] c = "J" -> "j"
      [] c = "L" -> "l"
      [] c = "S" -> "s"
      [] OTHER -> c

toLowerCase(s) == [n \in 1..Len(s) |-> LowerChar(s[n])]

RECURSIVE TrimStart(_)
TrimStart(s) ==
    IF s # <<>> /\ IsSpace(Head(s)) THEN TrimStart(Tail(s)) ELSE s

RECURSIVE TrimEnd(_)
TrimEnd(s) ==
    IF s # <<>> /\ IsSpace(s[Len(s)])
    THEN TrimEnd(SubSeq(s, 1, Len(s) - 1)) ELSE s

trim(s) == TrimEnd(TrimStart(s))

startsWith(s, prefix) ==
    /\ Len(prefix) <= Len(s)
    /\ SubSeq(s, 1, Len(prefix)) = prefix

\* replace(/\s+/g, " ")
RECURSIVE CollapseSpaces(_)
CollapseSpaces(s) ==
    IF s = <<>> THEN <<>>
    ELSE IF IsSpace(Head(s))
    THEN <<" ">> \o CollapseSpaces(TrimStart(s))
    ELSE <<Head(s)>> \o CollapseSpaces(Tail(s))

normalizeKey(s) == toLowerCase(CollapseSpaces(trim(s)))

----------------------------------------------------------------------------
(* Listing pages: extractAlbumCandidatesFromListing *)

\* what extractListingReleaseDateForLink gives for an anchor: no date, an
\* exception of the DOM walk, or a date
NoRel == [kind |-> "none", date |-> 0]

RelThrows == [kind |-> "throws", date |-> 0]

Rel(date) == [kind |-> "date", date |-> date]

\* The DOM above an anchor, as the walk sees it: chain[1] is the anchor,
\* chain[h + 1] its h-th ancestor, up to the root.  Of each node: the album
\* URLs of the a[href] inside it (links), the date the pattern matcher finds
\* in its text (date), and whether an album href inside it is one that
\* new URL() rejects (bad).
Level(links, date) == [links |-> links, date |-> date, bad |-> FALSE]

BadLevel == [links |-> {}, date |-> NoRel, bad |-> TRUE]

\* the walk from hop `hop` on
RECURSIVE Climb(_, _, _, _)
Climb(chain, hop, albumUrl, maxHops) ==
    IF hop >= maxHops \/ hop + 1 > Len(chain) THEN NoRel
    ELSE
    LET container == chain[hop + 1] IN
    IF container.bad THEN RelThrows
    ELSE IF /\ Cardinality(container.links) = 1
            /\ albumUrl \in container.links
            /\ container.date.kind = "date"
    THEN container.date
    ELSE Climb(chain, hop + 1, albumUrl, maxHops)

\* (mutant) the walk ends at the first node whose only album link is the
\* anchor's, with or without a date in its text
RECURSIVE ClimbToFirstUnique(_, _, _, _)
ClimbToFirstUnique(chain, hop, albumUrl, maxHops) ==
    IF hop >= maxHops \/ hop + 1 > Len(chain) THEN NoRel
    ELSE
    LET container == chain[hop + 1] IN
    IF container.bad THEN RelThrows
    ELSE IF container.links = {albumUrl}
    THEN container.date
    ELSE ClimbToFirstUnique(chain, hop + 1, albumUrl, maxHops)

extractListingReleaseDateFirstUnique(chain, albumUrl) ==
    ClimbToFirstUnique(chain, 0, albumUrl, MaxHopsDefault)

\* extractListingReleaseDateForLink with the default maxHops
extractListingReleaseDateForLink(chain, albumUrl) ==
    Climb(chain, 0, albumUrl, MaxHopsDefault)

\* (mutant) the listing filter with both ends of the range left out
ListingInRangeExclusive(rel, startDate, endDate) ==
    rel > startDate /\ rel < endDate

\* (mutant) the listing filter without its upper bound
ListingInRangeNoUpper(rel, startDate, endDate) ==
    rel >= startDate

\* the range test of the listing phase
ListingInRange(rel, startDate, endDate) ==
    rel >= startDate /\ rel <= endDate

\* The anchors of a page with an album href, in document order.  An anchor
\* whose href new URL() rejects throws out of the whole extraction.
\* Result: candidates, the parse errors counted inside, threw.
RECURSIVE ExtractAnchors(_, _, _, _, _)
ExtractAnchors(anchors, seen, labelName, startDate, endDate) ==
    IF anchors = <<>>
    THEN [candidates |-> <<>>, parseErrors |-> 0, threw |-> FALSE]
    ELSE
    LET a == Head(anchors) IN
    IF a.badHref
    THEN [candidates |-> <<>>, parseErrors |-> 0, threw |-> TRUE]
    ELSE IF a.url \in seen
    THEN ExtractAnchors(Tail(anchors), seen, labelName, startDate, endDate)
    ELSE
    LET rest == ExtractAnchors(Tail(anchors), seen \cup {a.url}, labelName,
                               startDate, endDate)
        rel == extractListingReleaseDateForLink(a.chain, a.url)
        mine == IF rel.kind = "date"
                   /\ ListingInRange(rel.date, startDate, endDate)
                THEN << [album_url |-> a.url, label_name |-> labelName,
                         release_date_listing |-> rel.date] >>
                ELSE <<>>
    IN [candidates |-> mine \o rest.candidates,
        parseErrors |-> (IF rel.kind = "throws" THEN 1 ELSE 0)
                        + rest.parseErrors,
        threw |-> rest.threw]

\* extractAlbumCandidatesFromListing on a page [anchors, page2], page2 being
\* "yes", "no" or "throws" (listingHasPage2 meets an href new URL() rejects)
extractAlbumCandidatesFromListing(pg, labelName, startDate, endDate) ==
    LET ex == ExtractAnchors(pg.anchors, {}, labelName, startDate, endDate) IN
    [candidates |-> ex.candidates,
     parseErrors |-> ex.parseErrors,
     threw |-> ex.threw \/ pg.page2 = "throws",
     hasPage2 |-> pg.page2 = "yes"]

\* (mutant) every extracted candidate is pushed
PushUnseenAll(list, seen, new) ==
    [list |-> list \o new,
     seen |-> seen \cup {<<new[n].album_url, new[n].label_name>> :
                            n \in 1..Len(new)}]

\* candidates.push for the candidates whose key seenByLabelUrl does not hold
RECURSIVE PushUnseen(_, _, _)
PushUnseen(list, seen, new) ==
    IF new = <<>> THEN [list |-> list, seen |-> seen]
    ELSE
    LET c == Head(new)
        key == <<c.album_url, c.label_name>>
    IN IF key \in seen THEN PushUnseen(list, seen, Tail(new))
       ELSE PushUnseen(Append(list, c), seen \cup {key}, Tail(new))

----------------------------------------------------------------------------
(* Album pages: the filter of the album loop *)

\* the detail date is present and outside [date_from, date_to]
DateMismatch(finalRelease, config) ==
    finalRelease < config.date_from \/ finalRelease > config.date_to

GenreMismatch(genre_first, config) ==
    ~startsWith(toLowerCase(trim(genre_first)), toLowerCase(config.genre_root))

TooShort(total_seconds, config) ==
    total_seconds < config.min_minutes * 60

\* (mutant) the fallback date used without counting or reporting it
FilterCandidateSilentFallback(det, cand, config) ==
    LET missing == det.release_date_album.kind # "date"
        finalRelease == IF missing THEN cand.release_date_listing
                        ELSE det.release_date_album.date
        verdict ==
            IF ~missing /\ DateMismatch(finalRelease, config) THEN "date"
            ELSE IF GenreMismatch(det.genre_first, config) THEN "genre"
            ELSE IF TooShort(det.total_seconds, config) THEN "length"
            ELSE "accept"
    IN [verdict |-> verdict, missing |-> FALSE, finalRelease |-> finalRelease]

\* (mutant) a candidate without detail date accepted without further stages
FilterCandidateFallbackAccepts(det, cand, config) ==
    LET missing == det.release_date_album.kind # "date"
        finalRelease == IF missing THEN cand.release_date_listing
                        ELSE det.release_date_album.date
        verdict ==
            IF missing THEN "accept"
            ELSE IF DateMismatch(finalRelease, config) THEN "date"
            ELSE IF GenreMismatch(det.genre_first, config) THEN "genre"
            ELSE IF TooShort(det.total_seconds, config) THEN "length"
            ELSE "accept"
    IN [verdict |-> verdict, missing |-> missing, finalRelease |-> finalRelease]

\* (mutant) the genre stage run before the date stage
FilterCandidateGenreFirst(det, cand, config) ==
    LET missing == det.release_date_album.kind # "date"
        finalRelease == IF missing THEN cand.release_date_listing
                        ELSE det.release_date_album.date
        verdict ==
            IF GenreMismatch(det.genre_first, config) THEN "genre"
            ELSE IF ~missing /\ DateMismatch(finalRelease, config) THEN "date"
            ELSE IF TooShort(det.total_seconds, config) THEN "length"
            ELSE "accept"
    IN [verdict |-> verdict, missing |-> missing, finalRelease |-> finalRelease]

\* The album loop from the date resolution to accepted.push, for parsed
\* details det of candidate cand: the stage that rejects ("date", "genre",
\* "length") or "accept", whether the listing date was used, the final date.
FilterCandidate(det, cand, config) ==
    LET missing == det.release_date_album.kind # "date"
        finalRelease == IF missing THEN cand.release_date_listing
                        ELSE det.release_date_album.date
        verdict ==
            IF ~missing /\ DateMismatch(finalRelease, config) THEN "date"
            ELSE IF GenreMismatch(det.genre_first, config) THEN "genre"
            ELSE IF TooShort(det.total_seconds, config) THEN "length"
            ELSE "accept"
    IN [verdict |-> verdict, missing |-> missing, finalRelease |-> finalRelease]

----------------------------------------------------------------------------------------------------------------------------------------
(* Inputs of a run *)

\* The input space is explored in slices ("worlds"): each fixes which config
\* files, labels files, album URLs, page contents and request outcomes a run
\* can meet, so that one dimension is explored in full while the others stay
\* small.
\*   "single"  one label, 1..MaxPages pages, two album URLs, all page contents
\*   "labels"  zero to two labels (one with a URL new URL() rejects), one page
\*   "fetch"   retries 0..MaxRetries, every request outcome
\*   "timing"  every pair of lane delays, two jobs on each lane
\*   "bad"     the config files and labels files that do not load
\*   "dates"   the config dates, no label
\*   "pages"   two labels of MaxPages + 1 pages without album link
\*   "dom"     one page of one album card, every DOM above its anchor
\*   "retry"   lane delays that are not 0, MaxRetries attempts per fetch
Worlds ==
    {"single", "labels", "fetch", "timing", "bad", "dates", "pages", "dom",
     "retry"}

BaseFile ==
    [exists |-> TRUE, badLine |-> FALSE,
     date_from |-> RawDate(1, 1, 2024), date_to |-> RawDate(31, 1, 2024),
     min_minutes |-> NumAbsent, delay_listing |-> Num(0),
     delay_album |-> Num(0), max_pages_per_label |-> Num(1),
     retries |-> Num(1), timeout_ms |-> NumAbsent]

\* the same range, given in reverse
SwappedFile ==
    [BaseFile EXCEPT !.date_from = RawDate(31, 1, 2024),
                     !.date_to = RawDate(1, 1, 2024)]

DelayValues == {Num(n * FxScale) : n \in 0..MaxDelaySec} \cup {NumAbsent}

\* config files parseInputConfig rejects
BadConfigFiles ==
    {[BaseFile EXCEPT !.exists = FALSE],
     [BaseFile EXCEPT !.badLine = TRUE],
     [BaseFile EXCEPT !.date_from = RawAbsent],
     [BaseFile EXCEPT !.date_to = RawAbsent],
     [BaseFile EXCEPT !.date_from = RawMalformed],
     [BaseFile EXCEPT !.date_to = RawDate(31, 2, 2024)],
     [BaseFile EXCEPT !.date_from = RawDate(1, 1, 50)],
     [BaseFile EXCEPT !.min_minutes = NumNaN],
     [BaseFile EXCEPT !.min_minutes = Num(0)],
     [BaseFile EXCEPT !.delay_listing = Num(-1)],
     [BaseFile EXCEPT !.delay_album = NumNaN],
     [BaseFile EXCEPT !.max_pages_per_label = Num(0)],
     [BaseFile EXCEPT !.retries = Num(-1)],
     [BaseFile EXCEPT !.retries = NumNaN],
     [BaseFile EXCEPT !.timeout_ms = Num(MinTimeoutMs - 1)]}

\* date texts of the form DD.MM.YYYY: first and last days, a leap day, years
\* of three and of two digits' worth, a day that does not exist
FileDates ==
    {RawDate(1, 1, 2024), RawDate(31, 1, 2024), RawDate(29, 2, 2024),
     RawDate(31, 12, 999), RawDate(1, 1, 100), RawDate(31, 12, 99),
     RawDate(31, 12, 9999), RawDate(29, 2, 2023)}

ConfigFilesOf(w) ==
    CASE w = "dates" ->
           {[BaseFile EXCEPT !.date_from = a, !.date_to = b] :
               a \in FileDates, b \in FileDates}
      [] w = "pages" ->
           {[BaseFile EXCEPT !.max_pages_per_label = Num(MaxPages + 1)]}
      [] w = "retry" ->
           {[BaseFile EXCEPT !.delay_listing = dl, !.delay_album = dl,
                             !.retries = Num(MaxRetries),
                             !.max_pages_per_label = Num(MaxPages)] :
               dl \in DelayValues \ {Num(0)}}
      [] w = "single" ->
           {[BaseFile EXCEPT !.max_pages_per_label = Num(p)] : p \in 1..MaxPages}
      [] w = "labels" -> {BaseFile, SwappedFile}
      [] w = "fetch" ->
           {[BaseFile EXCEPT !.retries = Num(r)] : r \in 0..MaxRetries}
      [] w = "timing" ->
           {[BaseFile EXCEPT !.delay_listing = dl, !.delay_album = da,
                             !.max_pages_per_label = Num(MaxPages)] :
               dl \in DelayValues, da \in DelayValues}
      [] OTHER -> IF w = "dom" THEN {BaseFile} ELSE BadConfigFiles \cup {BaseFile}

LabelA == LabelLine(<<"A">>, "la")

LabelB == LabelLine(<<"B">>, "lb")

OneLabel == [exists |-> TRUE, lines |-> <<LabelA>>]

GoodLabelsFiles ==
    {[exists |-> TRUE, lines |-> ls] :
        ls \in {<<>>, <<LabelA>>, <<BlankLine, LabelA, LabelB>>,
                <<LabelA, [LabelB EXCEPT !.parsable = FALSE]>>}}

BadLabelsFiles ==
    {[exists |-> FALSE, lines |-> <<>>]}
    \cup {[exists |-> TRUE, lines |-> ls] :
            ls \in {<<[LabelA EXCEPT !.hasSep = FALSE]>>,
                    <<LabelA, [LabelB EXCEPT !.name = <<>>]>>,
                    <<LabelA, [LabelB EXCEPT !.http = FALSE,
                                             !.parsable = FALSE]>>}}

LabelsFilesOf(w) ==
    CASE w = "dates" -> {[exists |-> TRUE, lines |-> <<>>]}
      [] w = "pages" -> {[exists |-> TRUE, lines |-> <<LabelA, LabelB>>]}
      [] w = "labels" -> GoodLabelsFiles
      [] w = "bad" -> BadLabelsFiles
      [] OTHER -> {OneLabel}

Urls == {"u1", "u2"}

UrlsOf(w) == IF w \in {"single", "timing"} THEN Urls ELSE {"u1"}

\* the days around the two ends of the date range of BaseFile
PageDates ==
    {DateKey(31, 12, 2023), DateKey(1, 1, 2024), DateKey(31, 1, 2024),
     DateKey(1, 2, 2024)}

RelsOf(w) ==
    CASE w = "timing" -> {Rel(DateKey(1, 1, 2024))}
      [] w = "fetch" -> {NoRel, RelThrows} \cup {Rel(d) : d \in PageDates}
      [] w = "single" ->
           {NoRel, Rel(DateKey(1, 1, 2024)), Rel(DateKey(1, 2, 2024))}
      [] OTHER ->
           {NoRel, RelThrows}
           \cup {Rel(d) : d \in PageDates \ {DateKey(31, 1, 2024)}}

\* the anchor node itself: no a[href] inside it
AnchorNode == Level({}, NoRel)

\* the plainest DOM for which the walk from the anchor of album u gives r:
\* the parent links to u only and its text holds the date, or no date, or
\* the parent holds an album href new URL() rejects
ChainFor(r, u) ==
    IF r.kind = "throws" THEN <<AnchorNode, BadLevel>>
    ELSE <<AnchorNode, Level({u}, r)>>

\* The DOM above the anchor of album u with n ancestors: the ancestors
\* below the m-th link to u only, those from the m-th on to another album
\* as well; the text has no date below the t-th ancestor, a first date
\* from the t-th on and, once it takes in more text from the s-th ancestor
\* on, another date first.
Ancestors(u, n, m, t, s) ==
    <<AnchorNode>>
    \o [h \in 1..n |->
          Level(IF h < m THEN {u} ELSE {u, "u2"},
                IF h < t THEN NoRel
                ELSE IF h < s THEN Rel(DateKey(1, 1, 2024))
                ELSE Rel(DateKey(31, 1, 2024)))]

DomChains(u) ==
    {Ancestors(u, n, m, t, s) :
        n \in 1..MaxDepth, m \in 1..(MaxDepth + 1), t \in 1..(MaxDepth + 1),
        s \in 1..(MaxDepth + 1)}

Anchor(u, chain) == [url |-> u, chain |-> chain, badHref |-> FALSE]

AnchorsOf(w) ==
    IF w \in {"pages", "retry"} THEN {}
    ELSE IF w = "dom" THEN {Anchor("u1", c) : c \in DomChains("u1")}
    ELSE {Anchor(u, ChainFor(r, u)) : u \in UrlsOf(w), r \in RelsOf(w)}
         \cup (IF w = "timing" THEN {}
               ELSE {[url |-> "", chain |-> <<>>, badHref |-> TRUE]})

RECURSIVE SeqsUpTo(_, _)
SeqsUpTo(S, n) ==
    IF n = 0 THEN {<<>>}
    ELSE LET shorter == SeqsUpTo(S, n - 1) IN
         shorter \cup {Append(q, x) : q \in shorter, x \in S}

\* a page of one album card, and the anchor of the album the card's
\* ancestors link to as well
DomPages ==
    {[anchors |-> <<a, Anchor("u2", ChainFor(NoRel, "u2"))>>, page2 |-> "no"] :
        a \in AnchorsOf("dom")}

ListingPagesOf(w) ==
    IF w = "dom" THEN DomPages ELSE
    {[anchors |-> as, page2 |-> p2] :
        as \in SeqsUpTo(AnchorsOf(w), MaxLinks),
        p2 \in CASE w \in {"timing", "retry"} -> {"yes"}
                  [] w = "single" -> {"yes", "no"}
                  [] w = "pages" -> {"yes", "no", "throws"}
                  [] OTHER -> {"yes", "throws"}}

Classical == DEFAULTS.genre_root

GenreTexts ==
    {<<>>, <<"C", "l", "a", "s", "s">>,
     <<" ", "C", "L", "A", "S", "S", "I", "C", "A", "L", " ", "x">>}

Titles == {<<"A">>, <<"a">>, <<"B">>}

Artists == {<<"S">>}

AlbumSeconds == {DefaultMinMinutes * 60 - 1, DefaultMinMinutes * 60}

AlbumDates == {NoRel} \cup {Rel(d) : d \in PageDates \ {DateKey(1, 1, 2024)}}

Details(t, ar, sec, rd, g) ==
    [kind |-> "details", title |-> t, main_artists |-> ar,
     total_seconds |-> sec, release_date_album |-> rd, genre_first |-> g]

\* what parseAlbumDetails does on a page: throws, returns null, or details
AlbumPages ==
    {[kind |-> "throws"], [kind |-> "null"]}
    \cup {Details(t, ar, sec, rd, g) :
            t \in Titles, ar \in Artists, sec \in AlbumSeconds,
            rd \in AlbumDates, g \in GenreTexts}

AlbumPagesOf(w) ==
    CASE w \in {"timing", "dom", "retry"} -> {[kind |-> "null"]}
      [] w = "single" ->
           {ap \in AlbumPages :
               (ap.kind = "details" /\ ap.title = <<"B">>) =>
                   /\ ap.release_date_album.kind = "date"
                   /\ ap.genre_first # <<>>
                   /\ ap.total_seconds >= DefaultMinMinutes * 60}
      [] OTHER -> {ap \in AlbumPages :
                     ap.kind = "details" => ap.title # <<"B">>}

\* what one HTTP request ends with: a response (status, body readable or
\* not, empty or not), a network error, or the abort at timeout_ms
Statuses == {200, 404, 429, 500, 599}

Outcomes ==
    {[kind |-> "response", status |-> st, body |-> "text"] : st \in Statuses}
    \cup {[kind |-> "response", status |-> 200, body |-> b] :
            b \in {"empty", "unreadable"}}
    \cup {[kind |-> kd, status |-> 0, body |-> ""] :
            kd \in {"network", "timeout"}}

OutcomesOf(w) ==
    CASE w = "fetch" -> Outcomes
      [] w = "timing" ->
           {o \in Outcomes : o.body = "text" /\ o.status \in {200, 500}}
      [] w \in {"single", "pages", "dom"} ->
           {o \in Outcomes : o.body = "text" /\ o.status \in {200, 404}}
      [] w = "retry" ->
           {o \in Outcomes : o.body = "text" /\ o.status \in {200, 429, 500}}
      [] OTHER ->
           {o \in Outcomes : o.body \in {"text", "empty"}
                             /\ o.status \in {200, 404}}

DryRunsOf(w) == IF w = "fetch" THEN BOOLEAN ELSE {FALSE}

\* the download directory before the run: absent, or left by an earlier run
\* with or without a missing-date report
OldRecord ==
    [album_title |-> <<"A">>, main_artists |-> <<"S">>, label |-> <<"A">>,
     album_url |-> "u0", release_date |-> DateKey(1, 1, 2020)]

OldRow ==
    [label |-> <<"A">>, album_url |-> "u0",
     listing_release_date |-> DateKey(1, 1, 2020),
     album_title |-> <<"A">>, main_artists |-> <<"S">>]

EarlierDisks ==
    {[dir |-> TRUE,
      linksTxt |-> [exists |-> TRUE, rows |-> <<"u0">>],
      xlsx |-> [exists |-> TRUE, rows |-> <<OldRecord>>],
      missingDatesTxt |-> m] :
        m \in {[exists |-> FALSE, rows |-> <<>>],
               [exists |-> TRUE, rows |-> <<OldRow>>]}}

DisksOf(w) ==
    {[dir |-> FALSE,
      linksTxt |-> [exists |-> FALSE, rows |-> <<>>],
      xlsx |-> [exists |-> FALSE, rows |-> <<>>],
      missingDatesTxt |-> [exists |-> FALSE, rows |-> <<>>]]}
    \cup (IF w = "fetch" THEN EarlierDisks ELSE {})

----------------
(* State *)

Lanes == {"listing", "album"}

\* the clocks saturate at the largest spacing a limiter can be given
ClockCap == MaxDelaySec * MsPerSecond

Saturate(ms) == Min(ms, ClockCap)

\* minTime: Math.max(0, delay * 1000), in milliseconds
MinTimeOf(delayFx) == Max(0, (delayFx * MsPerSecond) \div FxScale)

ListingMinTime(config) == MinTimeOf(config.delay_listing)

\* (mutant) the album limiter built with the listing delay
AlbumMinTimeCopied(config) == MinTimeOf(config.delay_listing)

AlbumMinTime(config) == MinTimeOf(config.delay_album)

NoGap == [seen |-> FALSE, ms |-> 0]

\* new Bottleneck({maxConcurrent: 1, minTime}) with what the model observes
\* of it: the jobs submitted, dispatched and completed, in order; the time
\* since its last dispatch (clock); the spacing of its last two dispatches
\* (gap); the time since the last HTTP request of its jobs (sinceRequest),
\* the spacing of the last two requests (requestGap) and the number of
\* requests sent (requestsSent).
NewLimiter(minTime) ==
    [maxConcurrent |-> LimiterMaxConcurrent, minTime |-> minTime,
     queue |-> <<>>, running |-> <<>>,
     submitted |-> <<>>, dispatched |-> <<>>, completed |-> <<>>,
     clock |-> ClockCap, gap |-> NoGap,
     sent |-> FALSE, sinceRequest |-> ClockCap, requestGap |-> NoGap,
     requestsSent |-> 0]

\* line 444: the fetchHtml call f of a lane has sent a request (or not)
NoteRequest(lim, f) ==
    IF f.fpc = "inflight"
    THEN [lim EXCEPT !.sent = TRUE,
                     !.requestGap = IF lim.sent
                                    THEN [seen |-> TRUE, ms |-> lim.sinceRequest]
                                    ELSE NoGap,
                     !.sinceRequest = 0,
                     !.requestsSent = @ + 1]
    ELSE lim

NoOutcome == [kind |-> "none", status |-> 0, body |-> ""]

\* a fetchHtml call: fpc is "idle", "inflight" (request sent), "sleep"
\* (backoff running) or "returned"
IdleFetch ==
    [fpc |-> "idle", job |-> 0, attempt |-> 0, requests |-> 0,
     last |-> NoOutcome, errBefore |-> 0, ret |-> "", backoff |-> 0]

ZeroStats ==
    [labelsTotal |-> 0, labelsProcessed |-> 0, candidatesTotal |-> 0,
     albumsFetched |-> 0, accepted |-> 0, rejectedByGenre |-> 0,
     rejectedByLength |-> 0, rejectedByDateMismatch |-> 0,
     missingAlbumDate |-> 0, duplicatesRemoved |-> 0, httpErrors |-> 0,
     parseErrors |-> 0]

NoFile == [exists |-> FALSE, rows |-> <<>>]

EmptyDisk ==
    [dir |-> FALSE, linksTxt |-> NoFile, xlsx |-> NoFile,
     missingDatesTxt |-> NoFile]

NoResult == [returned |-> FALSE, ok |-> FALSE, code |-> "", missingDatesTxt |-> FALSE]

NoLast ==
    [set |-> FALSE, cand |-> [album_url |-> "", label_name |-> <<>>,
                             release_date_listing |-> 0],
     det |-> [kind |-> "null"], before |-> ZeroStats, acceptedBefore |-> 0,
     rowsBefore |-> 0]

\* the listing page parsed last: its content, the label and page number it
\* was parsed for and the length of the candidate list before it
NoListing ==
    [set |-> FALSE, pg |-> [anchors |-> <<>>, page2 |-> "no"],
     label_name |-> <<>>, label |-> 0, page |-> 0, before |-> 0]

InitHist ==
    [configRead |-> FALSE, configFile |-> BaseFile,
     labelsRead |-> FALSE, labelsFile |-> [exists |-> FALSE, lines |-> <<>>],
     netIO |-> FALSE, overlapSeen |-> FALSE, abortedBy |-> "", last |-> NoLast,
     atAlbums |-> ZeroStats, disk0 |-> EmptyDisk,
     logged |-> [date_from |-> <<>>, date_to |-> <<>>],
     seenAgain |-> FALSE, listed |-> NoListing, requests |-> <<>>,
     noPage2 |-> {}]

Init ==
    /\ world \in Worlds
    /\ pc = "start"
    /\ dryRun \in DryRunsOf(world)
    /\ cfg = NoCfg
    /\ labels = <<>>
    /\ stats = ZeroStats
    /\ i = 1
    /\ page = 1
    /\ candidates = <<>>
    /\ seenByLabelUrl = {}
    /\ k = 1
    /\ accepted = <<>>
    /\ missingRows = <<>>
    /\ dedup = <<>>
    /\ files \in DisksOf(world)
    /\ progress = <<>>
    /\ result = NoResult
    /\ lane = [l \in Lanes |-> NewLimiter(0)]
    /\ fetchSt = [l \in Lanes |-> IdleFetch]
    /\ awaiting = 0
    /\ settled = {}
    /\ nextJob = 1
    /\ hist = [InitHist EXCEPT !.disk0 = files]

----------------------------------------------------------------------------
(* Progress events and the IPC handler's catch *)

Event(phase, percent) == [phase |-> phase, percent |-> percent]

\* Math.round(a / b) for a >= 0, b > 0
RoundDiv(a, b) == (2 * a + b) \div (2 * b)

ListingPercent(n, total) == Min(40, 5 + RoundDiv(n * 35, Max(1, total)))

\* (mutant) the album percent without the offset of the listing phase
AlbumPercentNoOffset(n, total) == Min(90, RoundDiv(n * 50, Max(1, total)))

AlbumPercent(n, total) == Min(90, 40 + RoundDiv(n * 50, Max(1, total)))

\* runQobuzScraper throws: the handler of "run-qobuz-scraper" sends the error
\* event and returns {ok: false, error: {code, message, details}}
HandlerCatch(events, code, h) ==
    /\ progress' = Append(events, Event("error", 100))
    /\ result' = [returned |-> TRUE, ok |-> FALSE, code |-> code,
                  missingDatesTxt |-> FALSE]
    /\ hist' = h
    /\ pc' = "returned"

----------------------------------------------------------------------------
(* Start of the run: config and labels *)

\* lines 512-513: the init event, then parseInputConfig
LoadConfig ==
    /\ pc = "start"
    /\ \E file \in ConfigFilesOf(world) :
        LET r == parseInputConfig(file)
            h == [hist EXCEPT !.configRead = TRUE, !.configFile = file]
            events == Append(progress, Event("init", 1))
        IN IF r.ok
           THEN /\ cfg' = r.config
                /\ progress' = events
                \* lines 516-529: the start log
                /\ hist' = [h EXCEPT !.logged =
                              [date_from |-> formatPlDate(r.config.date_from),
                               date_to |-> formatPlDate(r.config.date_to)]]
                /\ pc' = "labels"
                /\ UNCHANGED result
           ELSE /\ HandlerCatch(events, r.code, [h EXCEPT !.abortedBy = "config"])
                /\ UNCHANGED cfg
    /\ UNCHANGED <<world, dryRun, labels, stats, i, page, candidates, seenByLabelUrl,
                   k, accepted, missingRows, dedup, files, lane, fetchSt,
                   awaiting, settled, nextJob>>

\* lines 531-539: the labels event, parseLabelsFile, the two limiters
LoadLabels ==
    /\ pc = "labels"
    /\ \E file \in LabelsFilesOf(world) :
        LET r == parseLabelsFile(file)
            h == [hist EXCEPT !.labelsRead = TRUE, !.labelsFile = file]
            events == Append(progress, Event("labels", 3))
        IN IF r.ok
           THEN /\ labels' = r.labels
                /\ stats' = [stats EXCEPT !.labelsTotal = Len(r.labels)]
                /\ lane' = [l \in Lanes |->
                              NewLimiter(IF l = "listing"
                                         THEN ListingMinTime(cfg)
                                         ELSE AlbumMinTime(cfg))]
                /\ progress' = events
                /\ hist' = h
                /\ pc' = "labelStart"
                /\ UNCHANGED result
           ELSE /\ HandlerCatch(events, r.code, [h EXCEPT !.abortedBy = "labels"])
                /\ UNCHANGED <<labels, stats, lane>>
    /\ i' = 1
    /\ UNCHANGED <<world, dryRun, cfg, page, candidates, seenByLabelUrl, k, accepted,
                   missingRows, dedup, files, fetchSt, awaiting, settled,
                   nextJob>>

----------------------------------------------------------------------------
(* The limiters and fetchHtml *)

\* limiter.schedule(job): the job joins the lane's queue and the run awaits it
Schedule(l) ==
    /\ lane' = [lane EXCEPT ![l].queue = Append(@, nextJob),
                            ![l].submitted = Append(@, nextJob)]
    /\ awaiting' = nextJob
    /\ nextJob' = nextJob + 1

\* (mutant) one attempt more than config.retries
LoopContinuesOnceMore(attempt, config) == attempt <= config.retries + 1

\* the loop condition of fetchHtml
LoopContinues(attempt, config) == attempt <= config.retries

\* The head of fetchHtml's loop for attempt number `attempt`: the next
\* request is sent, or the loop is left: httpErrors += 1, return null.
LoopHead(f, attempt, config) ==
    IF LoopContinues(attempt, config)
    THEN [f EXCEPT !.fpc = "inflight", !.attempt = attempt,
                   !.requests = @ + 1]
    ELSE [f EXCEPT !.fpc = "returned", !.attempt = attempt, !.ret = "null"]

\* (mutant) every status other than 200 is retried
ClassifyRetryAll(o) ==
    IF o.kind # "response" THEN "catch"
    ELSE IF o.status = 429 THEN "rate"
    ELSE IF o.status # 200 THEN "server"
    ELSE IF o.body = "unreadable" THEN "catch"
    ELSE o.body

\* what fetchHtml does with the end of a request: "rate" (429), "server"
\* (5xx), "fail" (another status than 200), "catch" (fetch or
\* response.text() rejected), "text" or "empty" (the body, possibly "")
Classify(o) ==
    IF o.kind # "response" THEN "catch"
    ELSE IF o.status = 429 THEN "rate"
    ELSE IF o.status >= 500 /\ o.status < 600 THEN "server"
    ELSE IF o.status # 200 THEN "fail"
    ELSE IF o.body = "unreadable" THEN "catch"
    ELSE o.body

Backoff(class, attempt) ==
    CASE class = "rate" -> RateLimitBaseMs * Pow2(attempt - 1)
      [] class = "server" -> ServerErrorBaseMs * Pow2(attempt - 1)
      [] OTHER -> NetworkErrorBaseMs * Pow2(attempt - 1)

\* the fetchHtml call after outcome o of its request
AfterOutcome(f, o) ==
    LET class == Classify(o) IN
    IF class \in {"rate", "server", "catch"}
    THEN [f EXCEPT !.fpc = "sleep", !.last = o,
                   !.backoff = Backoff(class, f.attempt)]
    ELSE IF class = "fail"
    THEN [f EXCEPT !.fpc = "returned", !.last = o, !.ret = "null"]
    ELSE [f EXCEPT !.fpc = "returned", !.last = o, !.ret = class]

\* (mutant) httpErrors counted at every failed attempt
CountHttpErrorEachAttempt(st, after) ==
    IF after.fpc = "sleep" \/ (after.fpc = "returned" /\ after.ret = "null")
    THEN [st EXCEPT !.httpErrors = @ + 1]
    ELSE st

\* stats.httpErrors += 1 on the two paths that return null
CountHttpError(st, after) ==
    IF after.fpc = "returned" /\ after.ret = "null"
    THEN [st EXCEPT !.httpErrors = @ + 1]
    ELSE st

\* the first job of the queue
NextInQueue(queue) == Head(queue)

\* (mutant) the dispatched job stays in the queue
DequeueKeep(queue) == queue

\* the queue once its first job has been taken
Dequeue(queue) == Tail(queue)

CanDispatch(lim) ==
    /\ lim.queue # <<>>
    /\ Len(lim.running) < lim.maxConcurrent
    /\ lim.clock >= lim.minTime

Busy(l) == lane[l].running # <<>>

\* The limiter starts the lane's next job: fetchHtml runs to its first await.
Dispatch(l) ==
    /\ CanDispatch(lane[l])
    /\ LET job == NextInQueue(lane[l].queue)
           f == LoopHead([IdleFetch EXCEPT !.job = job,
                                           !.errBefore = stats.httpErrors],
                         1, cfg)
       IN /\ lane' = [lane EXCEPT
                        ![l] = NoteRequest(
                            [@ EXCEPT
                               !.queue = Dequeue(@),
                               !.running = Append(@, job),
                               !.dispatched = Append(@, job),
                               !.gap = IF lane[l].dispatched = <<>> THEN NoGap
                                       ELSE [seen |-> TRUE,
                                             ms |-> lane[l].clock],
                               !.clock = 0], f)]
          /\ fetchSt' = [fetchSt EXCEPT ![l] = f]
          /\ stats' = CountHttpError(stats, f)
          /\ hist' = [hist EXCEPT
                        !.netIO = @ \/ f.fpc = "inflight",
                        !.overlapSeen = @ \/ \A o \in Lanes \ {l} : Busy(o)]
    /\ UNCHANGED <<world, pc, dryRun, cfg, labels, i, page, candidates,
                   seenByLabelUrl, k, accepted, missingRows, dedup, files,
                   progress, result, awaiting, settled, nextJob>>

\* the request of lane l ends
Response(l) ==
    /\ fetchSt[l].fpc = "inflight"
    /\ \E o \in OutcomesOf(world) :
        LET f == AfterOutcome(fetchSt[l], o) IN
        /\ fetchSt' = [fetchSt EXCEPT ![l] = f]
        /\ stats' = CountHttpError(stats, f)
    /\ UNCHANGED <<world, pc, dryRun, cfg, labels, i, page, candidates,
                   seenByLabelUrl, k, accepted, missingRows, dedup, files,
                   progress, result, lane, awaiting, settled, nextJob, hist>>

Advance(ms) ==
    [l \in Lanes |-> [lane[l] EXCEPT !.clock = Saturate(@ + ms),
                                     !.sinceRequest = Saturate(@ + ms)]]

\* sleep(backoff) is over: the loop goes to its next attempt
BackoffDone(l) ==
    /\ fetchSt[l].fpc = "sleep"
    /\ LET f == LoopHead([fetchSt[l] EXCEPT !.backoff = 0],
                         fetchSt[l].attempt + 1, cfg)
       IN /\ fetchSt' = [fetchSt EXCEPT ![l] = f]
          /\ stats' = CountHttpError(stats, f)
          /\ lane' = [Advance(fetchSt[l].backoff) EXCEPT
                        ![l] = NoteRequest(@, f)]
    /\ UNCHANGED <<world, pc, dryRun, cfg, labels, i, page, candidates,
                   seenByLabelUrl, k, accepted, missingRows, dedup, files,
                   progress, result, awaiting, settled, nextJob, hist>>

\* fetchHtml has returned: the job is complete and its promise resolves
JobDone(l) ==
    /\ fetchSt[l].fpc = "returned"
    /\ lane' = [lane EXCEPT
                  ![l].running = SelectSeq(@, LAMBDA j : j # fetchSt[l].job),
                  ![l].completed = Append(@, fetchSt[l].job)]
    /\ settled' = settled \cup {<<fetchSt[l].job, fetchSt[l].ret>>}
    /\ fetchSt' = [fetchSt EXCEPT ![l] = IdleFetch]
    /\ UNCHANGED <<world, pc, dryRun, cfg, labels, stats, i, page, candidates,
                   seenByLabelUrl, k, accepted, missingRows, dedup, files,
                   progress, result, awaiting, nextJob, hist>>

\* time passes while a request is out or a lane waits for its spacing
Tick ==
    /\ \E l \in Lanes :
        \/ fetchSt[l].fpc = "inflight"
        \/ /\ lane[l].queue # <<>>
           /\ lane[l].clock < lane[l].minTime
    /\ lane' = Advance(TickMs)
    /\ UNCHANGED <<world, pc, dryRun, cfg, labels, stats, i, page, candidates,
                   seenByLabelUrl, k, accepted, missingRows, dedup, files,
                   progress, result, fetchSt, awaiting, settled, nextJob,
                   hist>>

\* (mutant) the run does not await the scheduled job
SettledNotAwaited(job) == TRUE

\* the awaited promise has resolved
Settled(job) == \E e \in settled : e[1] = job

\* the value `await limiter.schedule(...)` gives
Awaited(job) ==
    IF \E e \in settled : e[1] = job
    THEN (CHOOSE e \in settled : e[1] = job)[2]
    ELSE "null"

----------------------------------------------------------------------------
(* Listing phase *)

\* (mutant) the label start not reported
LabelStartEventDropped(events, n, total) == events

\* lines 544-550: the progress event of a label start
LabelStartEvent(events, n, total) ==
    Append(events, Event("listing", ListingPercent(n, total)))

\* lines 541-552 and 588: the head of the label loop
LabelStart ==
    /\ pc = "labelStart"
    /\ IF i > Len(labels)
       THEN /\ stats' = [stats EXCEPT !.candidatesTotal = Len(candidates)]
            /\ k' = 1
            /\ pc' = "albumStart"
            /\ hist' = [hist EXCEPT !.atAlbums = stats, !.listed = NoListing]
            /\ UNCHANGED <<page, progress, result>>
       ELSE
       LET events == LabelStartEvent(progress, i, Len(labels))
       IN /\ stats' = [stats EXCEPT !.labelsProcessed = @ + 1]
          /\ IF labels[i].parsable
             THEN /\ progress' = events
                  /\ page' = 1
                  /\ pc' = "pageStart"
                  /\ hist' = [hist EXCEPT !.listed = NoListing]
                  /\ UNCHANGED result
             ELSE \* normalizeLabelBase: new URL(label.url) throws
                  /\ HandlerCatch(events, "UNEXPECTED_ERROR",
                                  [hist EXCEPT !.abortedBy = "labelUrl",
                                               !.listed = NoListing])
                  /\ UNCHANGED page
          /\ UNCHANGED k
    /\ UNCHANGED <<world, dryRun, cfg, labels, i, candidates, seenByLabelUrl,
                   accepted, missingRows, dedup, files, lane, fetchSt,
                   awaiting, settled, nextJob>>

\* lines 553-557: the head of the page loop, to the awaited schedule
PageStart ==
    /\ pc = "pageStart"
    /\ IF page <= cfg.max_pages_per_label
          /\ ~(page > 1 /\ cfg.max_pages_per_label <= 1)
       THEN /\ Schedule("listing")
            /\ pc' = "awaitListing"
            /\ hist' = [hist EXCEPT !.listed = NoListing,
                                    !.requests = Append(@, <<i, page>>)]
            /\ UNCHANGED i
       ELSE /\ i' = i + 1
            /\ pc' = "labelStart"
            /\ hist' = [hist EXCEPT !.listed = NoListing]
            /\ UNCHANGED <<lane, awaiting, nextJob>>
    /\ UNCHANGED <<world, dryRun, cfg, labels, stats, page, candidates,
                   seenByLabelUrl, k, accepted, missingRows, dedup, files,
                   progress, result, fetchSt, settled>>

\* (mutant) the page-2 check made after every page
StopsPagingAnyPage(pageNo, hasPage2) == ~hasPage2

\* line 582: the page loop is left after page 1 without a link to page 2
StopsPaging(pageNo, hasPage2) == pageNo = 1 /\ ~hasPage2

\* (mutant) a failed page ends the pages of its label
AfterFailedPageLeaves(pageNo, maxPages) == maxPages + 1

\* lines 558 and 572: `continue`, the loop goes to the next page
AfterFailedPage(pageNo, maxPages) == pageNo + 1

\* (mutant) the listing parse error is rethrown
OnListingParseErrorRethrow == "abort"

\* What the catch around extractAlbumCandidatesFromListing does with a
\* throwing page: "skip" (count it, go to the next page) or "abort".
OnListingParseError == "skip"

\* What the catch around parseAlbumDetails does with a throwing page.
OnAlbumParseError == "skip"

\* lines 557-585: the listing job has resolved
ListingResume ==
    /\ pc = "awaitListing"
    /\ Settled(awaiting)
    /\ settled' = {e \in settled : e[1] # awaiting}
    /\ IF Awaited(awaiting) # "text"
       THEN \* if (!html) continue
            /\ page' = AfterFailedPage(page, cfg.max_pages_per_label)
            /\ pc' = "pageStart"
            /\ UNCHANGED <<i, stats, candidates, seenByLabelUrl, progress,
                           result, hist>>
       ELSE \E pg \in ListingPagesOf(world) :
            LET ex == extractAlbumCandidatesFromListing(
                          pg, labels[i].name, cfg.date_from, cfg.date_to)
                pushed == PushUnseen(candidates, seenByLabelUrl, ex.candidates)
            IN IF ex.threw
               THEN /\ stats' = [stats EXCEPT
                                   !.parseErrors = @ + ex.parseErrors + 1]
                    /\ UNCHANGED <<i, candidates, seenByLabelUrl>>
                    /\ IF OnListingParseError = "skip"
                       THEN /\ page' = AfterFailedPage(
                                         page, cfg.max_pages_per_label)
                            /\ pc' = "pageStart"
                            /\ UNCHANGED <<progress, result, hist>>
                       ELSE /\ HandlerCatch(progress, "UNEXPECTED_ERROR",
                                    [hist EXCEPT !.abortedBy = "listingParse"])
                            /\ UNCHANGED page
               ELSE /\ stats' = [stats EXCEPT
                                   !.parseErrors = @ + ex.parseErrors]
                    /\ candidates' = pushed.list
                    /\ seenByLabelUrl' = pushed.seen
                    /\ IF StopsPaging(page, ex.hasPage2)
                       THEN /\ i' = i + 1
                            /\ pc' = "labelStart"
                            /\ UNCHANGED page
                       ELSE /\ page' = page + 1
                            /\ pc' = "pageStart"
                            /\ UNCHANGED i
                    /\ hist' = [hist EXCEPT
                                  !.seenAgain =
                                     @ \/ \E n \in 1..Len(ex.candidates) :
                                            <<ex.candidates[n].album_url,
                                              ex.candidates[n].label_name>>
                                                \in seenByLabelUrl,
                                  !.noPage2 =
                                     IF page = 1 /\ ~ex.hasPage2
                                     THEN @ \cup {i} ELSE @,
                                  !.listed =
                                     [set |-> TRUE, pg |-> pg,
                                      label_name |-> labels[i].name,
                                      label |-> i, page |-> page,
                                      before |-> Len(candidates)]]
                    /\ UNCHANGED <<progress, result>>
    /\ UNCHANGED <<world, dryRun, cfg, labels, k, accepted, missingRows, dedup,
                   files, lane, fetchSt, awaiting, nextJob>>

----------------------------------------------------------------------------
(* Album phase *)

\* (mutant) the album loop left before its last candidate
AlbumLoopStopsEarly(n, list) == n < Len(list)

\* line 594: the condition of the album loop (n counts from 1)
AlbumLoopContinues(n, list) == n <= Len(list)

\* lines 594-605: the head of the album loop, to the awaited schedule
AlbumStart ==
    /\ pc = "albumStart"
    /\ hist' = [hist EXCEPT !.last = NoLast]
    /\ IF AlbumLoopContinues(k, candidates)
       THEN /\ stats' = [stats EXCEPT !.albumsFetched = @ + 1]
            /\ progress' = Append(progress,
                              Event("albums", AlbumPercent(k, Len(candidates))))
            /\ Schedule("album")
            /\ pc' = "awaitAlbum"
       ELSE /\ pc' = "dedup"
            /\ UNCHANGED <<stats, progress, lane, awaiting, nextJob>>
    /\ UNCHANGED <<world, dryRun, cfg, labels, i, page, candidates, seenByLabelUrl,
                   k, accepted, missingRows, dedup, files, result, fetchSt,
                   settled>>

Record(det, cand, finalRelease) ==
    [album_title |-> det.title, main_artists |-> det.main_artists,
     label |-> cand.label_name, album_url |-> cand.album_url,
     release_date |-> finalRelease]

MissingRow(det, cand) ==
    [label |-> cand.label_name, album_url |-> cand.album_url,
     listing_release_date |-> cand.release_date_listing,
     album_title |-> det.title, main_artists |-> det.main_artists]

\* lines 605-645: the album job has resolved
AlbumResume ==
    /\ pc = "awaitAlbum"
    /\ Settled(awaiting)
    /\ settled' = {e \in settled : e[1] # awaiting}
    /\ k' = k + 1
    /\ IF Awaited(awaiting) # "text"
       THEN \* if (!html) continue
            /\ pc' = "albumStart"
            /\ UNCHANGED <<stats, accepted, missingRows, progress, result,
                           hist>>
       ELSE \E ap \in AlbumPagesOf(world) :
            IF ap.kind = "throws"
            THEN /\ stats' = [stats EXCEPT !.parseErrors = @ + 1]
                 /\ UNCHANGED <<accepted, missingRows>>
                 /\ IF OnAlbumParseError = "skip"
                    THEN /\ pc' = "albumStart"
                         /\ UNCHANGED <<progress, result, hist>>
                    ELSE HandlerCatch(progress, "UNEXPECTED_ERROR",
                                 [hist EXCEPT !.abortedBy = "albumParse"])
            ELSE IF ap.kind = "null"
            THEN \* if (!det) continue
                 /\ pc' = "albumStart"
                 /\ UNCHANGED <<stats, accepted, missingRows, progress,
                                result, hist>>
            ELSE
            LET cand == candidates[k]
                f == FilterCandidate(ap, cand, cfg)
                s1 == IF f.missing
                      THEN [stats EXCEPT !.missingAlbumDate = @ + 1]
                      ELSE stats
            IN /\ missingRows' = IF f.missing
                                 THEN Append(missingRows, MissingRow(ap, cand))
                                 ELSE missingRows
               /\ stats' =
                    CASE f.verdict = "date" ->
                           [s1 EXCEPT !.rejectedByDateMismatch = @ + 1]
                      [] f.verdict = "genre" ->
                           [s1 EXCEPT !.rejectedByGenre = @ + 1]
                      [] f.verdict = "length" ->
                           [s1 EXCEPT !.rejectedByLength = @ + 1]
                      [] OTHER -> s1
               /\ accepted' = IF f.verdict = "accept"
                              THEN Append(accepted,
                                          Record(ap, cand, f.finalRelease))
                              ELSE accepted
               /\ hist' = [hist EXCEPT
                             !.last = [set |-> TRUE, cand |-> cand,
                                       det |-> ap, before |-> stats,
                                       acceptedBefore |-> Len(accepted),
                                       rowsBefore |-> Len(missingRows)]]
               /\ pc' = "albumStart"
               /\ UNCHANGED <<progress, result>>
    /\ UNCHANGED <<world, dryRun, cfg, labels, i, page, candidates, seenByLabelUrl,
                   dedup, files, lane, fetchSt, awaiting, nextJob>>

----------------------------------------------------------------------------
(* Deduplication, output, result *)

\* (mutant) the key built without normalizeKey
RecordKeyRaw(r) == <<r.album_title, r.main_artists, r.label>>

RecordKey(r) ==
    <<normalizeKey(r.album_title), normalizeKey(r.main_artists),
      normalizeKey(r.label)>>

\* the first record of each key, in order
RECURSIVE Deduplicate(_, _)
Deduplicate(records, seen) ==
    IF records = <<>> THEN <<>>
    ELSE IF RecordKey(Head(records)) \in seen
    THEN Deduplicate(Tail(records), seen)
    ELSE <<Head(records)>>
         \o Deduplicate(Tail(records), seen \cup {RecordKey(Head(records))})

\* (mutant) the outputs written in a dry run too
WritesOutputsAlways(dry) == TRUE

\* line 666: the outputs are written unless the run is a dry run
WritesOutputs(dry) == ~dry

\* (mutant) the link list written last record first
WriteOutputsReversed(disk, records, rows) ==
    [dir |-> TRUE,
     linksTxt |-> [exists |-> TRUE,
                   rows |-> [n \in 1..Len(records) |->
                               records[Len(records) + 1 - n].album_url]],
     xlsx |-> [exists |-> TRUE, rows |-> records],
     missingDatesTxt |-> IF rows # <<>>
                         THEN [exists |-> TRUE, rows |-> rows]
                         ELSE NoFile]

\* (mutant) a report left by an earlier run is kept
WriteOutputsKeepReport(disk, records, rows) ==
    [dir |-> TRUE,
     linksTxt |-> [exists |-> TRUE,
                   rows |-> [n \in 1..Len(records) |-> records[n].album_url]],
     xlsx |-> [exists |-> TRUE, rows |-> records],
     missingDatesTxt |-> IF rows # <<>>
                         THEN [exists |-> TRUE, rows |-> rows]
                         ELSE disk.missingDatesTxt]

\* the disk after lines 666-680
WriteOutputs(disk, records, rows) ==
    [dir |-> TRUE,
     linksTxt |-> [exists |-> TRUE,
                   rows |-> [n \in 1..Len(records) |-> records[n].album_url]],
     xlsx |-> [exists |-> TRUE, rows |-> records],
     missingDatesTxt |-> IF rows # <<>>
                         THEN [exists |-> TRUE, rows |-> rows]
                         ELSE NoFile]

\* lines 647-700: from the dedup to the returned result
Finish ==
    /\ pc = "dedup"
    /\ LET d == Deduplicate(accepted, {}) IN
       /\ dedup' = d
       /\ stats' = [stats EXCEPT
                      !.duplicatesRemoved = @ + (Len(accepted) - Len(d)),
                      !.accepted = Len(d)]
       /\ files' = IF WritesOutputs(dryRun)
                   THEN WriteOutputs(files, d, missingRows)
                   ELSE files
       /\ progress' =
            progress \o <<Event("writing", 92)>>
            \o (IF WritesOutputs(dryRun) THEN <<Event("writing", 96)>>
                ELSE <<>>)
            \o <<Event("done", 100)>>
    /\ result' = [returned |-> TRUE, ok |-> TRUE, code |-> "",
                  missingDatesTxt |-> missingRows # <<>>]
    /\ pc' = "returned"
    /\ UNCHANGED <<world, dryRun, cfg, labels, i, page, candidates, seenByLabelUrl,
                   k, accepted, missingRows, lane, fetchSt, awaiting, settled,
                   nextJob, hist>>

----------------------------------------------------------------------------

Next ==
    \/ LoadConfig
    \/ LoadLabels
    \/ LabelStart
    \/ PageStart
    \/ ListingResume
    \/ AlbumStart
    \/ AlbumResume
    \/ Finish
    \/ \E l \in Lanes : Dispatch(l)
    \/ \E l \in Lanes : Response(l)
    \/ \E l \in Lanes : BackoffDone(l)
    \/ \E l \in Lanes : JobDone(l)
    \/ Tick

Spec == Init /\ [][Next]_vars

----------------------------------------------------------------------------
(* Properties *)

InConfiguredRange(d) == cfg.date_from <= d /\ d <= cfg.date_to

\* the records whose date is the listing date (a missing-date row was
\* written for them) and those whose date is the detail page's
FromFallback(r) ==
    \E n \in 1..Len(missingRows) :
        /\ missingRows[n].album_url = r.album_url
        /\ missingRows[n].label = r.label
        /\ missingRows[n].listing_release_date = r.release_date

\* C1: in every reachable state every record of the accepted list, of the
\* deduplicated list and of the written workbook has a release date d with
\* date_from <= d <= date_to, whether d is the detail page's date or the
\* listing date used as fallback.
C1_AcceptedWithinRange ==
    /\ \A n \in 1..Len(accepted) : InConfiguredRange(accepted[n].release_date)
    /\ \A n \in 1..Len(dedup) : InConfiguredRange(dedup[n].release_date)
    /\ (pc = "returned" /\ result.ok /\ ~dryRun) =>
           \A n \in 1..Len(files.xlsx.rows) :
               InConfiguredRange(files.xlsx.rows[n].release_date)

\* a written run that accepted a record dated by the fallback and a record
\* dated by its detail page
C1_Witness ==
    /\ pc = "returned" /\ result.ok /\ ~dryRun
    /\ files.xlsx.exists
    /\ \E n \in 1..Len(files.xlsx.rows) : FromFallback(files.xlsx.rows[n])
    /\ \E n \in 1..Len(files.xlsx.rows) : ~FromFallback(files.xlsx.rows[n])

\* the three stages, stated on the parsed details of the last candidate
LastDateOutside ==
    /\ hist.last.det.release_date_album.kind = "date"
    /\ ~InConfiguredRange(hist.last.det.release_date_album.date)

LastGenreOutside ==
    LET genre == toLowerCase(trim(hist.last.det.genre_first))
        root == toLowerCase(cfg.genre_root)
    IN \/ Len(genre) < Len(root)
       \/ \E n \in 1..Len(root) : genre[n] # root[n]

LastTooShort ==
    hist.last.det.total_seconds < cfg.min_minutes * 60

\* what the last candidate added to each rejection counter and to accepted
LastByDate ==
    stats.rejectedByDateMismatch - hist.last.before.rejectedByDateMismatch
LastByGenre == stats.rejectedByGenre - hist.last.before.rejectedByGenre
LastByLength == stats.rejectedByLength - hist.last.before.rejectedByLength
LastAccepted == Len(accepted) - hist.last.acceptedBefore

\* the state right after a candidate with parsed details went through the
\* filter
JustFiltered == hist.last.set /\ pc = "albumStart"

\* C2: for a candidate whose details were parsed the stages run in the order
\* date mismatch, genre root, minimum length and stop at the first failing
\* one: at most one rejection counter grows, by exactly 1; a detail date
\* outside the range grows only rejectedByDateMismatch; otherwise a genre not
\* starting with genre_root grows only rejectedByGenre; otherwise a too short
\* album grows only rejectedByLength; the candidate is accepted exactly when
\* no counter grew.
C2_FirstFailingStage ==
    JustFiltered =>
        /\ {LastByDate, LastByGenre, LastByLength} \subseteq {0, 1}
        /\ LastByDate + LastByGenre + LastByLength <= 1
        /\ LastByDate = 1 <=> LastDateOutside
        /\ LastByGenre = 1 <=> (~LastDateOutside /\ LastGenreOutside)
        /\ LastByLength = 1 <=>
               (~LastDateOutside /\ ~LastGenreOutside /\ LastTooShort)
        /\ LastAccepted = 1 <=> LastByDate + LastByGenre + LastByLength = 0
        /\ LastAccepted \in {0, 1}

\* a candidate that fails all three stages and is counted as a date mismatch
C2_Witness ==
    /\ JustFiltered
    /\ LastDateOutside /\ LastGenreOutside /\ LastTooShort
    /\ LastByDate = 1

\* a fetchHtml call that has returned and whose job has not completed yet
Returned(l) == fetchSt[l].fpc = "returned"

Retriable(o) ==
    \/ o.kind \in {"network", "timeout"}
    \/ o.kind = "response" /\ (o.status = 429 \/ o.status \in 500..599)

\* C3: for every allowed retries (>= 0) one fetchHtml call issues between 1
\* and retries + 1 requests: an initial one and at most `retries` retries
\* after 429, 5xx, network error or timeout; a call that ended on such a
\* failure returned null.
C3_RequestsPerCall ==
    \A l \in Lanes :
        Returned(l) =>
            /\ fetchSt[l].requests >= 1
            /\ fetchSt[l].requests <= cfg.retries + 1
            /\ Retriable(fetchSt[l].last) => fetchSt[l].ret = "null"

\* C4: a fetchHtml call that returns null has added exactly 1 to
\* stats.httpErrors, a call that returns text has added nothing, whatever
\* failures preceded the final outcome of the call.
C4_HttpErrorsPerCall ==
    \A l \in Lanes :
        Returned(l) =>
            stats.httpErrors - fetchSt[l].errBefore =
                IF fetchSt[l].ret = "null" THEN 1 ELSE 0

\* a call that returned text after a failed attempt, counted as no error
C4_Witness ==
    \E l \in Lanes :
        /\ Returned(l)
        /\ fetchSt[l].ret = "text"
        /\ fetchSt[l].requests >= 2
        /\ stats.httpErrors = fetchSt[l].errBefore

NotRetriedStatus(o) ==
    /\ o.kind = "response"
    /\ o.status # 200 /\ o.status # 429 /\ o.status \notin 500..599

\* C5: fetchHtml returns a body only when the last response had status 200;
\* a response with a status other than 200, 429 and 5xx ends the call at
\* once with null: after it the call neither sends a request nor sleeps,
\* whatever retry budget remains.
C5_BodyOnlyOn200 ==
    \A l \in Lanes :
        /\ (Returned(l) /\ fetchSt[l].ret # "null") =>
               /\ fetchSt[l].last.kind = "response"
               /\ fetchSt[l].last.status = 200
        /\ (fetchSt[l].fpc # "idle" /\ NotRetriedStatus(fetchSt[l].last)) =>
               /\ Returned(l)
               /\ fetchSt[l].ret = "null"

\* a 404 on the first attempt of a call that had a retry left
C5_Witness ==
    \E l \in Lanes :
        /\ Returned(l)
        /\ fetchSt[l].last.status = 404
        /\ fetchSt[l].requests = 1
        /\ cfg.retries >= 2

\* the error codes parseInputConfig and parseLabelsFile throw
LoadErrorCodes ==
    {"INPUT_FILE_NOT_FOUND", "INVALID_INPUT_LINE", "MISSING_REQUIRED_KEYS",
     "INVALID_DATE_FORMAT", "INVALID_NUMERIC_VALUE", "VALUE_OUT_OF_RANGE",
     "LABELS_FILE_NOT_FOUND", "INVALID_LABELS_LINE"}

\* a date text that is not DD.MM.YYYY or names no day of the calendar
NotADate(raw) ==
    \/ raw.kind = "malformed"
    \/ /\ raw.kind = "dmy"
       /\ \/ raw.m \notin 1..12
          \/ raw.d \notin 1..DaysInMonth(raw.m, raw.y)

\* the config files the format forbids
ConfigInvalid(file) ==
    \/ ~file.exists
    \/ file.badLine
    \/ file.date_from.kind = "absent" \/ file.date_to.kind = "absent"
    \/ NotADate(file.date_from) \/ NotADate(file.date_to)
    \/ \E key \in {"min_minutes", "delay_listing", "delay_album",
                   "max_pages_per_label", "retries", "timeout_ms"} :
           file[key].kind = "nan"
    \/ file.min_minutes.kind = "num" /\ file.min_minutes.val < 1
    \/ file.delay_listing.kind = "num" /\ file.delay_listing.val < 0
    \/ file.delay_album.kind = "num" /\ file.delay_album.val < 0
    \/ file.max_pages_per_label.kind = "num"
       /\ file.max_pages_per_label.val < 1
    \/ file.retries.kind = "num" /\ file.retries.val < 0
    \/ file.timeout_ms.kind = "num" /\ file.timeout_ms.val < MinTimeoutMs

\* the labels files the format forbids
LabelsInvalid(file) ==
    \/ ~file.exists
    \/ \E n \in 1..Len(file.lines) :
           /\ ~file.lines[n].blank
           /\ \/ ~file.lines[n].hasSep
              \/ file.lines[n].name = <<>>
              \/ ~file.lines[n].http

NoRequestSubmitted ==
    \A l \in Lanes : lane[l].submitted = <<>> /\ fetchSt[l] = IdleFetch

\* the run has ended in the handler's catch with a loading error and has
\* touched neither the network nor the disk
EndedAtLoading ==
    /\ pc = "returned"
    /\ result.returned /\ ~result.ok
    /\ result.code \in LoadErrorCodes
    /\ progress[Len(progress)] = Event("error", 100)
    /\ ~hist.netIO
    /\ NoRequestSubmitted
    /\ files = hist.disk0

\* C6: when the config file or the labels file that was read is invalid
\* (missing file, malformed line, missing date_from/date_to, invalid date,
\* non-numeric or out-of-range number, malformed labels line) the run ends
\* with ok: false and an error code, no HTTP request was issued and no
\* output file was written; and a run that ended with a loading error code
\* has issued no request and written no file.
C6_LoadFailureIsFatal ==
    /\ (hist.configRead /\ ConfigInvalid(hist.configFile)) => EndedAtLoading
    /\ (hist.labelsRead /\ LabelsInvalid(hist.labelsFile)) => EndedAtLoading
    /\ (result.returned /\ result.code \in LoadErrorCodes) => EndedAtLoading

\* a valid config was loaded, then a labels file with a malformed line
C6_Witness ==
    /\ hist.configRead /\ ~ConfigInvalid(hist.configFile)
    /\ hist.labelsRead /\ hist.labelsFile.exists
    /\ LabelsInvalid(hist.labelsFile)
    /\ result.returned /\ result.code = "INVALID_LABELS_LINE"

\* config and labels have loaded
Loaded ==
    /\ hist.configRead /\ ~ConfigInvalid(hist.configFile)
    /\ hist.labelsRead /\ ~LabelsInvalid(hist.labelsFile)

\* a label whose URL passes the labels parser and that `new URL` rejects
SomeLabelUrlUnparsable ==
    \E n \in 1..Len(hist.labelsFile.lines) :
        /\ ~hist.labelsFile.lines[n].blank
        /\ ~hist.labelsFile.lines[n].parsable

\* the run has gone through every label and candidate and returned ok
CompletedOk ==
    /\ pc = "returned"
    /\ result.returned /\ result.ok
    /\ progress[Len(progress)] = Event("done", 100)
    /\ i = Len(labels) + 1
    /\ stats.labelsProcessed = Len(labels)
    /\ k = Len(candidates) + 1
    /\ stats.albumsFetched = Len(candidates)

\* The runs followed to their end. The "dom" world is left to Spec: it
\* varies the ancestors of one anchor, which decide the listing date of one
\* candidate and nothing of the control flow, and the other worlds give a
\* candidate every listing date as well.
LiveInit == Init /\ world # "dom"

\* the scheduling of the JavaScript event loop: a continuation that can run
\* does run, a request ends (at the latest by its timeout), a timer fires
FairSpec == LiveInit /\ [][Next]_vars /\ WF_vars(Next)

\* C7: once config and labels have loaded, no failed fetch and no page that
\* fails to parse aborts the run: every run goes on through the remaining
\* pages, labels and candidates, emits the "done" event and returns ok: true
\* (runs with a label URL that `new URL` rejects set aside: that exception is
\* neither a fetch nor a page-parse failure).
C7_FailuresIsolated ==
    /\ [](Loaded /\ ~SomeLabelUrlUnparsable /\ result.returned => CompletedOk)
    /\ (Loaded /\ ~SomeLabelUrlUnparsable) ~> CompletedOk

\* a completed run in which a fetch failed and a page failed to parse
C7_Witness ==
    /\ CompletedOk
    /\ stats.httpErrors > 0
    /\ stats.parseErrors > 0

IsPrefix(a, b) ==
    /\ Len(a) <= Len(b)
    /\ \A n \in 1..Len(a) : a[n] = b[n]

\* C8: each lane has at most one fetch job in flight, and its jobs are
\* dispatched and completed in the order of their submission: the dispatched
\* jobs are a prefix of the submitted ones, the completed jobs a prefix of the
\* dispatched ones, and a job is dispatched only after its predecessor
\* completed.
C8_LaneSerialFifo ==
    \A l \in Lanes :
        /\ Len(lane[l].running) <= 1
        /\ IsPrefix(lane[l].dispatched, lane[l].submitted)
        /\ IsPrefix(lane[l].completed, lane[l].dispatched)
        /\ Len(lane[l].dispatched) - Len(lane[l].completed)
               = Len(lane[l].running)
        /\ \A n \in 1..Len(lane[l].submitted) :
               \A m \in 1..Len(lane[l].submitted) :
                   n # m => lane[l].submitted[n] # lane[l].submitted[m]

\* a lane running its second job after its first has completed
C8_Witness ==
    \E l \in Lanes :
        /\ Len(lane[l].completed) >= 1
        /\ Len(lane[l].running) = 1
        /\ fetchSt[l].fpc = "inflight"

\* a run that fetched at least two listing pages and one album page
TwoPagesOneCandidate ==
    /\ Len(lane["listing"].dispatched) >= 2
    /\ Len(lane["album"].dispatched) >= 1

\* C9 (as stated): in a run with at least two listing pages and one candidate
\* a listing request and an album request are in flight at the same time.
C9_LanesOverlap ==
    (pc = "returned" /\ result.ok /\ TwoPagesOneCandidate) => hist.overlapSeen

\* C9 (amended): the lanes are used one after the other: no listing job and
\* album job are in flight at the same time, and when the first album job is
\* submitted every listing job has completed.
C9_LanesNeverOverlap ==
    /\ ~(Busy("listing") /\ Busy("album"))
    /\ ~hist.overlapSeen
    /\ lane["album"].submitted # <<>> =>
           /\ lane["listing"].queue = <<>>
           /\ lane["listing"].completed = lane["listing"].submitted

\* an album request in flight in a run that fetched two listing pages
C9_Witness ==
    /\ TwoPagesOneCandidate
    /\ fetchSt["album"].fpc = "inflight"
    /\ Len(lane["listing"].completed) >= 2

\* the configured delay of a lane, in FxScale units per second
LaneDelay(l) == IF l = "listing" THEN cfg.delay_listing ELSE cfg.delay_album

\* C10: the dispatch times of two consecutive jobs of a lane differ by at
\* least the lane's configured delay (delay_listing, delay_album, in
\* seconds); a delay of 0 imposes no spacing.
C10_LaneSpacing ==
    \A l \in Lanes :
        lane[l].gap.seen =>
            lane[l].gap.ms * FxScale >= LaneDelay(l) * MsPerSecond

\* two listing jobs dispatched with no time between them under a delay of 0,
\* and two album jobs dispatched under a delay that is not 0
C10_Witness ==
    /\ cfg.delay_listing = 0
    /\ lane["listing"].gap.seen /\ lane["listing"].gap.ms = 0
    /\ cfg.delay_album > 0
    /\ lane["album"].gap.seen

\* the normalized (title, artists, label) of a record: lower case, trimmed,
\* runs of white space collapsed
NormalizedKey(r) ==
    <<toLowerCase(CollapseSpaces(trim(r.album_title))),
      toLowerCase(CollapseSpaces(trim(r.main_artists))),
      toLowerCase(CollapseSpaces(trim(r.label)))>>

\* the positions of accepted that hold the first record of their key
FirstOfKey ==
    {n \in 1..Len(accepted) :
        \A m \in 1..(n - 1) :
            NormalizedKey(accepted[m]) # NormalizedKey(accepted[n])}

\* the j-th position of FirstOfKey
NthFirst(j) ==
    CHOOSE n \in FirstOfKey : Cardinality({m \in FirstOfKey : m <= n}) = j

\* C11: the deduplicated list holds, for each normalized key, exactly the
\* first accepted record of that key, in acceptance order: no two of its
\* records share a key, duplicatesRemoved is the number of accepted records
\* minus the number of kept ones and stats.accepted is the number kept.
C11_FirstOfEachKey ==
    (pc = "returned" /\ result.ok) =>
        /\ Len(dedup) = Cardinality(FirstOfKey)
        /\ \A j \in 1..Len(dedup) : dedup[j] = accepted[NthFirst(j)]
        /\ \A a \in 1..Len(dedup) : \A b \in 1..Len(dedup) :
               a # b => NormalizedKey(dedup[a]) # NormalizedKey(dedup[b])
        /\ stats.duplicatesRemoved = Len(accepted) - Len(dedup)
        /\ stats.accepted = Len(dedup)

\* two accepted records whose titles differ in case only: the first is kept
C11_Witness ==
    /\ pc = "returned" /\ result.ok
    /\ Len(accepted) = 2 /\ Len(dedup) = 1
    /\ accepted[1].album_title # accepted[2].album_title
    /\ accepted[1].album_url # accepted[2].album_url
    /\ dedup[1] = accepted[1]
    /\ stats.duplicatesRemoved = 1

\* the parsed details of the last candidate carry no release date
LastMissingDate == hist.last.det.release_date_album.kind # "date"

LastMissingCounted ==
    stats.missingAlbumDate - hist.last.before.missingAlbumDate

LastRows == Len(missingRows) - hist.last.rowsBefore

\* the report row of the last candidate: label, URL, listing date, title,
\* artists
LastRowExpected ==
    [label |-> hist.last.cand.label_name,
     album_url |-> hist.last.cand.album_url,
     listing_release_date |-> hist.last.cand.release_date_listing,
     album_title |-> hist.last.det.title,
     main_artists |-> hist.last.det.main_artists]

\* C12: a candidate whose parsed details carry no release date gets the
\* listing date as final date, with no date rejection; missingAlbumDate grows
\* by exactly 1 and exactly one report row is recorded for it; a candidate
\* with a detail-page date records no row; the number of report rows equals
\* missingAlbumDate, in every state and in the written report.
C12_FallbackCountedOnce ==
    /\ Len(missingRows) = stats.missingAlbumDate
    /\ (pc = "returned" /\ result.ok /\ ~dryRun
        /\ files.missingDatesTxt.exists) =>
           /\ files.missingDatesTxt.rows = missingRows
           /\ Len(files.missingDatesTxt.rows) = stats.missingAlbumDate
    /\ JustFiltered =>
           IF LastMissingDate
           THEN /\ LastMissingCounted = 1
                /\ LastRows = 1
                /\ missingRows[Len(missingRows)] = LastRowExpected
                /\ LastByDate = 0
                /\ LastAccepted = 1 =>
                       accepted[Len(accepted)].release_date
                           = hist.last.cand.release_date_listing
           ELSE /\ LastMissingCounted = 0
                /\ LastRows = 0

\* a candidate without detail date accepted with its listing date after a
\* candidate with a detail date
C12_Witness ==
    /\ JustFiltered
    /\ LastMissingDate
    /\ LastAccepted = 1
    /\ Len(accepted) = 2
    /\ Len(missingRows) = 1

\* an accepted record made from the candidate of report row n
RowAccepted(n) ==
    \E m \in 1..Len(accepted) :
        /\ accepted[m].album_url = missingRows[n].album_url
        /\ accepted[m].label = missingRows[n].label
        /\ accepted[m].release_date = missingRows[n].listing_release_date

\* C13 (as stated): every row of the missing-date report corresponds to an
\* accepted record whose release date is the listing date.
C13_EveryRowAccepted ==
    \A n \in 1..Len(missingRows) : RowAccepted(n)

\* C13 (amended): every row of the missing-date report corresponds to a
\* candidate of the run, with its listing date; a candidate without detail
\* date is accepted exactly when it also passes the genre and length stages,
\* and then its release date is the listing date.
C13_RowForEveryFallback ==
    /\ \A n \in 1..Len(missingRows) :
           \E c \in 1..Len(candidates) :
               /\ candidates[c].album_url = missingRows[n].album_url
               /\ candidates[c].label_name = missingRows[n].label
               /\ candidates[c].release_date_listing
                      = missingRows[n].listing_release_date
    /\ (JustFiltered /\ LastMissingDate) =>
           /\ LastRows = 1
           /\ LastAccepted = 1 <=> (~LastGenreOutside /\ ~LastTooShort)
           /\ LastAccepted = 1 => RowAccepted(Len(missingRows))

\* a candidate without detail date and with a foreign genre: reported, not
\* accepted
C13_Witness ==
    /\ JustFiltered
    /\ LastMissingDate
    /\ LastGenreOutside
    /\ LastRows = 1
    /\ LastAccepted = 0
    /\ LastByGenre = 1

\* what the album phase added to httpErrors and to parseErrors
AlbumHttpErrors == stats.httpErrors - hist.atAlbums.httpErrors
AlbumParseErrors == stats.parseErrors - hist.atAlbums.parseErrors

\* C14: at the end of a run every candidate has contributed to exactly one
\* of httpErrors (album fetch failed), parseErrors (album parse threw), a
\* rejectedBy counter, duplicatesRemoved or accepted, a candidate whose album
\* page has no parsable duration included: candidatesTotal is the sum of
\* these contributions.
C14_EveryCandidateCounted ==
    (pc = "returned" /\ result.ok) =>
        stats.candidatesTotal =
            AlbumHttpErrors + AlbumParseErrors
            + stats.rejectedByDateMismatch + stats.rejectedByGenre
            + stats.rejectedByLength + stats.duplicatesRemoved
            + stats.accepted

\* C15: in a dry run no output artifact is created, modified or removed:
\* the download directory, the link list, the workbook and the missing-date
\* report are, in every state of the run, as they were before it.
C15_DryRunLeavesDisk ==
    dryRun => files = hist.disk0

\* a completed dry run with a record to write and a fallback case to report,
\* over the files of an earlier run
C15_Witness ==
    /\ dryRun
    /\ pc = "returned" /\ result.ok
    /\ dedup # <<>>
    /\ missingRows # <<>>
    /\ hist.disk0.xlsx.exists
    /\ files = hist.disk0

\* C16: after a successful run that is not a dry run the missing-date report
\* exists if and only if the run had a fallback case (a report of an earlier
\* run is removed when there was none), and the result's missingDatesTxt is
\* null exactly when there was none.
C16_ReportIffFallback ==
    (pc = "returned" /\ result.ok /\ ~dryRun) =>
        /\ files.missingDatesTxt.exists <=> stats.missingAlbumDate > 0
        /\ result.missingDatesTxt <=> stats.missingAlbumDate > 0
        /\ files.missingDatesTxt.exists =>
               files.missingDatesTxt.rows # hist.disk0.missingDatesTxt.rows

\* a run without fallback case over the report of an earlier run
C16_Witness ==
    /\ pc = "returned" /\ result.ok /\ ~dryRun
    /\ hist.disk0.missingDatesTxt.exists
    /\ stats.missingAlbumDate = 0
    /\ stats.albumsFetched > 0
    /\ ~files.missingDatesTxt.exists

\* the position of the candidate a record was made from
CandidateOf(r) ==
    CHOOSE c \in 1..Len(candidates) :
        /\ candidates[c].album_url = r.album_url
        /\ candidates[c].label_name = r.label

\* C17: the link list written by a run that is not a dry run holds exactly
\* one album URL per deduplicated record, in the order of the deduplicated
\* list, which is the order in which the candidates were processed; it is an
\* empty file when there is no record; the workbook has the same number of
\* rows in the same order.
C17_LinksFollowDedup ==
    (pc = "returned" /\ result.ok /\ ~dryRun) =>
        /\ files.dir
        /\ files.linksTxt.exists
        /\ Len(files.linksTxt.rows) = Len(dedup)
        /\ \A n \in 1..Len(dedup) :
               files.linksTxt.rows[n] = dedup[n].album_url
        /\ dedup = <<>> => files.linksTxt.rows = <<>>
        /\ files.xlsx.exists
        /\ Len(files.xlsx.rows) = Len(dedup)
        /\ \A n \in 1..Len(dedup) :
               /\ files.xlsx.rows[n].album_url = files.linksTxt.rows[n]
               /\ files.xlsx.rows[n].album_title = dedup[n].album_title
               /\ files.xlsx.rows[n].main_artists = dedup[n].main_artists
               /\ files.xlsx.rows[n].label = dedup[n].label
               /\ files.xlsx.rows[n].release_date = dedup[n].release_date
        /\ \A a \in 1..Len(dedup) : \A b \in 1..Len(dedup) :
               a < b => CandidateOf(dedup[a]) < CandidateOf(dedup[b])

\* two records with different URLs written
C17_Witness ==
    /\ pc = "returned" /\ result.ok /\ ~dryRun
    /\ Len(dedup) = 2
    /\ dedup[1].album_url # dedup[2].album_url
    /\ Len(files.linksTxt.rows) = 2

\* the band of a phase
InBand(e) ==
    CASE e.phase \in {"init", "labels"} -> e.percent <= 5
      [] e.phase = "listing" -> e.percent >= 5 /\ e.percent <= 40
      [] e.phase = "albums" -> e.percent >= 40 /\ e.percent <= 90
      [] e.phase = "writing" -> e.percent >= 90 /\ e.percent <= 100
      [] e.phase = "done" -> e.percent = 100
      [] OTHER -> e.percent <= 100

\* the percent formulas on their own, for up to MaxTotal labels or
\* candidates: within the band and not decreasing with the position
PercentFormulasInBand ==
    \A total \in 1..MaxTotal : \A n \in 1..total :
        /\ ListingPercent(n, total) \in 5..40
        /\ AlbumPercent(n, total) \in 40..90
        /\ n < total =>
               /\ ListingPercent(n, total) <= ListingPercent(n + 1, total)
               /\ AlbumPercent(n, total) <= AlbumPercent(n + 1, total)

\* C18: over the progress events of a run, the error event included,
\* percent never decreases from one event to the next and each event's
\* percent lies in the band of its phase: init and labels <= 5, listing in
\* [5, 40], albums in [40, 90], writing in [90, 100], done = 100, for every
\* number of labels and candidates, zero included.
C18_PercentMonotone ==
    /\ \A n \in 1..(Len(progress) - 1) :
           progress[n].percent <= progress[n + 1].percent
    /\ \A n \in 1..Len(progress) : InBand(progress[n])
    /\ pc = "start" => PercentFormulasInBand

\* a completed run whose first of two labels and first of two candidates
\* were reported below the top of their bands
C18_Witness ==
    /\ pc = "returned" /\ result.ok
    /\ \E n \in 1..Len(progress) :
           progress[n].phase = "listing" /\ progress[n].percent < 40
    /\ \E n \in 1..Len(progress) :
           progress[n].phase = "albums" /\ progress[n].percent < 90
    /\ progress[Len(progress)] = Event("done", 100)

\* a DD.MM.YYYY text that names a day parsePlDate accepts
ValidConfigDate(raw) ==
    /\ raw.kind = "dmy"
    /\ raw.y \in 100..9999
    /\ raw.m \in 1..12
    /\ raw.d \in 1..DaysInMonth(raw.m, raw.y)

\* raw names a later day than other
LaterDay(raw, other) ==
    \/ raw.y > other.y
    \/ raw.y = other.y /\ raw.m > other.m
    \/ raw.y = other.y /\ raw.m = other.m /\ raw.d > other.d

\* the config holds the day raw names
IsDay(date, raw) == date = DateKey(raw.d, raw.m, raw.y)

ConfigLoaded == hist.configRead /\ cfg # NoCfg

\* C19: for every pair of valid config dates the loaded config has
\* date_from <= date_to: when the file gives date_from > date_to the two are
\* exchanged, otherwise they are kept as given.
C19_RangeNeverReversed ==
    (ConfigLoaded /\ ValidConfigDate(hist.configFile.date_from)
     /\ ValidConfigDate(hist.configFile.date_to)) =>
        /\ cfg.date_from <= cfg.date_to
        /\ IF LaterDay(hist.configFile.date_from, hist.configFile.date_to)
           THEN /\ IsDay(cfg.date_from, hist.configFile.date_to)
                /\ IsDay(cfg.date_to, hist.configFile.date_from)
           ELSE /\ IsDay(cfg.date_from, hist.configFile.date_from)
                /\ IsDay(cfg.date_to, hist.configFile.date_to)

\* a file whose date_from is a later day of the same month than its date_to
C19_Witness ==
    /\ ConfigLoaded
    /\ pc = "returned" /\ result.ok
    /\ hist.configFile.date_from = RawDate(31, 1, 2024)
    /\ hist.configFile.date_to = RawDate(1, 1, 2024)
    /\ cfg.date_from < cfg.date_to

\* the text formatPlDate gave is parsed back to the date it was made from
ParsesBackTo(text, date) ==
    /\ parsePlDate(MatchPlDate(text)).ok
    /\ parsePlDate(MatchPlDate(text)).date = date

\* C20: config date parsing round-trips: for every DD.MM.YYYY text that
\* parsePlDate accepts, years below 1000 included, the text formatPlDate
\* makes of the parsed date is accepted by parsePlDate and denotes the same
\* day.
C20_FormatParseRoundTrip ==
    ConfigLoaded =>
        /\ ParsesBackTo(hist.logged.date_from, cfg.date_from)
        /\ ParsesBackTo(hist.logged.date_to, cfg.date_to)

\* the (albumUrl, labelName) pair of a candidate
PairOf(c) == <<c.album_url, c.label_name>>

\* C21: in every reachable state no two entries of the candidate list have
\* the same (albumUrl, labelName) pair, the pairs seen are those of the list,
\* and the detail phase fetches each candidate at most once: one album job
\* per position of the list.
C21_CandidatesUnique ==
    /\ \A a \in 1..Len(candidates) : \A b \in 1..Len(candidates) :
           a # b => PairOf(candidates[a]) # PairOf(candidates[b])
    /\ seenByLabelUrl = {PairOf(candidates[n]) : n \in 1..Len(candidates)}
    /\ Len(lane["album"].submitted) = stats.albumsFetched
    /\ stats.albumsFetched <= Len(candidates)

\* an album link met again on a later page of its label, fetched once
C21_Witness ==
    /\ hist.seenAgain
    /\ pc = "returned" /\ result.ok
    /\ Len(candidates) = 1
    /\ Len(lane["album"].completed) = 1
    /\ Len(lane["listing"].completed) >= 2

\* a listing page has just been parsed without exception
JustListed == hist.listed.set

\* the album URLs linked from the page parsed last
ListedUrls ==
    {hist.listed.pg.anchors[n].url : n \in 1..Len(hist.listed.pg.anchors)}

\* the first anchor of the page with URL u: the one a date is extracted for
FirstAnchor(u) ==
    LET as == hist.listed.pg.anchors
        at == CHOOSE n \in 1..Len(as) :
                  as[n].url = u /\ \A m \in 1..(n - 1) : as[m].url # u
    IN as[at]

\* the candidates the page parsed last added to the list
NewCandidates ==
    SubSeq(candidates, hist.listed.before + 1, Len(candidates))

\* the pairs the list held before that page
PairsBefore ==
    {PairOf(candidates[n]) : n \in 1..hist.listed.before}

\* what the walk from anchor a gave
AnchorRel(a) == extractListingReleaseDateForLink(a.chain, a.url)

\* a date was extracted for the link and lies in [date_from, date_to]
DatedInRange(a) ==
    /\ AnchorRel(a).kind = "date"
    /\ cfg.date_from <= AnchorRel(a).date
    /\ AnchorRel(a).date <= cfg.date_to

\* C22: on a listing page that parsed, an album link becomes a candidate if
\* and only if a release date was extracted for it and that date d has
\* date_from <= d <= date_to, both ends included: the page adds one candidate
\* (with that date and the label's name) for each such link not yet listed
\* for the label, and none for a link without date or dated outside.
C22_CandidateIffDatedInRange ==
    JustListed =>
        /\ \A u \in ListedUrls :
               /\ DatedInRange(FirstAnchor(u)) =>
                      \E n \in 1..Len(candidates) :
                          /\ candidates[n].album_url = u
                          /\ candidates[n].label_name = hist.listed.label_name
               /\ (\E n \in 1..Len(NewCandidates) :
                       NewCandidates[n].album_url = u)
                  <=> (/\ DatedInRange(FirstAnchor(u))
                       /\ <<u, hist.listed.label_name>> \notin PairsBefore)
        /\ \A n \in 1..Len(NewCandidates) :
               /\ NewCandidates[n].album_url \in ListedUrls
               /\ NewCandidates[n].label_name = hist.listed.label_name
               /\ NewCandidates[n].release_date_listing
                      = AnchorRel(FirstAnchor(NewCandidates[n].album_url)).date

\* a page with a link dated inside the range and a link dated after it:
\* exactly one candidate
C22_Witness ==
    /\ JustListed
    /\ Len(hist.listed.pg.anchors) = 2
    /\ AnchorRel(hist.listed.pg.anchors[1]) = Rel(DateKey(1, 1, 2024))
    /\ AnchorRel(hist.listed.pg.anchors[2]) = Rel(DateKey(1, 2, 2024))
    /\ hist.listed.pg.anchors[1].url # hist.listed.pg.anchors[2].url
    /\ hist.listed.before = 0
    /\ Len(candidates) = 1
    /\ candidates[1].album_url = hist.listed.pg.anchors[1].url

\* the listing phase is over: every label walked, every listing job complete
ListingPhaseOver ==
    /\ i = Len(labels) + 1
    /\ lane["listing"].queue = <<>>
    /\ lane["listing"].running = <<>>
    /\ lane["listing"].completed = lane["listing"].submitted
    /\ fetchSt["listing"] = IdleFetch

\* every candidate has been resolved: fetched, and filtered or skipped
AlbumPhaseOver ==
    /\ k = Len(candidates) + 1
    /\ stats.albumsFetched = Len(candidates)
    /\ Len(lane["album"].completed) = Len(candidates)
    /\ lane["album"].queue = <<>>
    /\ lane["album"].running = <<>>
    /\ fetchSt["album"] = IdleFetch

\* the deduplication has run over the full accepted list
DedupDone ==
    /\ Len(dedup) + stats.duplicatesRemoved = Len(accepted)
    /\ stats.accepted = Len(dedup)

\* C23: the phases of a run are strictly ordered: no album job is submitted
\* or dispatched before the last listing job of the last label has
\* completed; the deduplicated list, duplicatesRemoved and stats.accepted
\* change only after every candidate has been resolved; no output file is
\* written before the deduplication has finished.
C23_PhasesOrdered ==
    /\ (lane["album"].submitted # <<>> \/ fetchSt["album"] # IdleFetch
        \/ stats.albumsFetched > 0) => ListingPhaseOver
    /\ (dedup # <<>> \/ stats.duplicatesRemoved > 0 \/ stats.accepted > 0) =>
           ListingPhaseOver /\ AlbumPhaseOver /\ DedupDone
    /\ files # hist.disk0 =>
           /\ ListingPhaseOver /\ AlbumPhaseOver /\ DedupDone
           /\ files.xlsx.rows = dedup

\* a written run over two listing pages and two candidates, one of them
\* removed as a duplicate
C23_Witness ==
    /\ pc = "returned" /\ result.ok /\ ~dryRun
    /\ Len(lane["listing"].completed) = 2
    /\ Len(lane["album"].completed) = 2
    /\ stats.duplicatesRemoved = 1
    /\ files # hist.disk0
    /\ Len(files.linksTxt.rows) = 1

\* the listing pages requested for the n-th label, in the order of the
\* requests
PagesOf(n) ==
    LET mine == SelectSeq(hist.requests, LAMBDA r : r[1] = n) IN
    [j \in 1..Len(mine) |-> mine[j][2]]

\* the pages 1..n in ascending order
PagesUpTo(n) == [j \in 1..n |-> j]

\* the labels whose page loop has been left
LabelsDone == 1..(i - 1)

\* page 1 of the n-th label was fetched and parsed and has no link to a
\* second page
NoPage2Link(n) == n \in hist.noPage2

\* C24: when page 1 of a label was fetched and parsed and has no link to a
\* second page, no further page of that label is requested, whatever
\* max_pages_per_label; the check is made after page 1 only: after any later
\* page the loop goes on to the next page, and a label whose page 1 did not
\* stop it has all its pages up to max_pages_per_label requested.
C24_StopAfterPage1Only ==
    /\ \A n \in 1..Len(labels) : NoPage2Link(n) => PagesOf(n) = <<1>>
    /\ \A n \in LabelsDone :
           ~NoPage2Link(n) =>
               PagesOf(n) = PagesUpTo(cfg.max_pages_per_label)
    /\ (JustListed /\ hist.listed.page >= 2) =>
           /\ pc = "pageStart"
           /\ i = hist.listed.label
           /\ page = hist.listed.page + 1

\* a run with more than two pages per label: the first label was left after
\* a page 1 without link to page 2; page 2 of the second label has no such
\* link either and the loop is at its page 3
C24_Witness ==
    /\ cfg.max_pages_per_label >= 3
    /\ NoPage2Link(1) /\ PagesOf(1) = <<1>>
    /\ i = 2 /\ ~NoPage2Link(2)
    /\ JustListed
    /\ hist.listed.page = 2 /\ hist.listed.pg.page2 = "no"
    /\ pc = "pageStart" /\ page = 3

\* request a comes before request b in the walk: an earlier label, or the
\* same label and an earlier page
WalkedBefore(a, b) == a[1] < b[1] \/ (a[1] = b[1] /\ a[2] < b[2])

\* C25: for every label the listing pages are requested in ascending order
\* from page 1 and never more than max_pages_per_label of them; a failed
\* fetch or a parse failure of page p skips that page only: the loop is then
\* at page p + 1 with every earlier page requested, page 1 included, and a
\* label not stopped by its page 1 has all its pages requested; the labels
\* are walked one after another in the order of the labels file.
C25_PagesAscendingLabelsInOrder ==
    /\ \A n \in 1..Len(labels) :
           /\ PagesOf(n) = PagesUpTo(Len(PagesOf(n)))
           /\ Len(PagesOf(n)) <= cfg.max_pages_per_label
    /\ \A a \in 1..Len(hist.requests) : \A b \in 1..Len(hist.requests) :
           a < b => WalkedBefore(hist.requests[a], hist.requests[b])
    /\ Len(hist.requests) = Len(lane["listing"].submitted)
    /\ pc = "pageStart" => PagesOf(i) = PagesUpTo(page - 1)
    /\ pc = "awaitListing" =>
           hist.requests[Len(hist.requests)] = <<i, page>>
    /\ \A n \in LabelsDone :
           \/ Len(PagesOf(n)) = cfg.max_pages_per_label
           \/ NoPage2Link(n)
    /\ \A n \in (i + 1)..Len(labels) : PagesOf(n) = <<>>
    /\ (hist.labelsRead /\ ~LabelsInvalid(hist.labelsFile)) =>
           labels = LabelsOf(hist.labelsFile.lines)

\* the three pages of the first label all failed, by fetch or by parse, each
\* was followed by the next one, and page 1 of the second label is requested
C25_Witness ==
    /\ pc = "awaitListing"
    /\ hist.requests = <<<<1, 1>>, <<1, 2>>, <<1, 3>>, <<2, 1>>>>
    /\ Len(lane["listing"].completed) = 3
    /\ stats.httpErrors >= 1
    /\ stats.parseErrors >= 1
    /\ stats.httpErrors + stats.parseErrors = 3
    /\ labels[1].name = <<"A">> /\ labels[2].name = <<"B">>

\* the least element of a non-empty set of numbers
Least(S) == CHOOSE x \in S : \A y \in S : x <= y

\* the h-th ancestor of anchor a (the anchor itself for h = 0)
NodeAbove(a, h) == a.chain[h + 1]

\* the ancestors of a, among its first MaxHopsDefault, whose album links are
\* exactly {a.url}
UniqueContainers(a) ==
    {h \in 1..MaxHopsDefault :
        h + 1 <= Len(a.chain) /\ NodeAbove(a, h).links = {a.url}}

\* the date as stated: the one in the text of the innermost unique
\* container, no date when that text has none or no container is unique
FirstUniqueContainerDate(a) ==
    IF UniqueContainers(a) = {} THEN NoRel
    ELSE NodeAbove(a, Least(UniqueContainers(a))).date

\* the nodes the walk examines (the anchor, hop 0, and its first
\* MaxHopsDefault - 1 ancestors) whose album links are exactly {a.url} and
\* whose text holds a date
DatedUniqueContainers(a) ==
    {h \in 0..(MaxHopsDefault - 1) :
        /\ h + 1 <= Len(a.chain)
        /\ NodeAbove(a, h).links = {a.url}
        /\ NodeAbove(a, h).date.kind = "date"}

InnermostDatedContainerDate(a) ==
    IF DatedUniqueContainers(a) = {} THEN NoRel
    ELSE NodeAbove(a, Least(DatedUniqueContainers(a))).date

\* the page parsed last gave the album of anchor a the listing date rel: it
\* added a candidate for it exactly when rel is a date of the range not yet
\* listed, with rel as its date
ListedWith(a, rel) ==
    /\ (\E n \in 1..Len(NewCandidates) : NewCandidates[n].album_url = a.url)
       <=> (/\ rel.kind = "date"
            /\ InConfiguredRange(rel.date)
            /\ <<a.url, hist.listed.label_name>> \notin PairsBefore)
    /\ \A n \in 1..Len(NewCandidates) :
           NewCandidates[n].album_url = a.url =>
               NewCandidates[n].release_date_listing = rel.date

\* C26 (as stated): the listing date of an album link is the date in the
\* text of the first ancestor, within 10 levels, whose album links are
\* exactly that album's URL; when that text has no date, or no such
\* ancestor exists, there is no date.
C26_FirstUniqueContainer ==
    JustListed =>
        \A u \in ListedUrls :
            ListedWith(FirstAnchor(u), FirstUniqueContainerDate(FirstAnchor(u)))

\* C26 (amended): the listing date of an album link is the date in the text
\* of the innermost node, among the anchor and its first nine ancestors,
\* whose album links are exactly that album's URL and whose text holds a
\* date: a unique container without date does not end the walk; when there
\* is no such node there is no date, and a node with more than one album
\* link never gives one.
C26_InnermostDatedContainer ==
    JustListed =>
        \A u \in ListedUrls :
            /\ ListedWith(FirstAnchor(u),
                          InnermostDatedContainerDate(FirstAnchor(u)))
            /\ \A n \in 1..Len(NewCandidates) :
                   NewCandidates[n].album_url = u =>
                       \E h \in 1..(MaxHopsDefault - 1) :
                           /\ h + 1 <= Len(FirstAnchor(u).chain)
                           /\ Cardinality(NodeAbove(FirstAnchor(u), h).links)
                                  = 1
                           /\ NodeAbove(FirstAnchor(u), h).date.date
                                  = NewCandidates[n].release_date_listing

\* an anchor whose parent links to its album only and has no date in its
\* text, and whose text two levels up has one: the album is a candidate
\* with that date
C26_Witness ==
    /\ JustListed
    /\ hist.listed.pg.anchors # <<>>
    /\ LET a == hist.listed.pg.anchors[1] IN
       /\ Len(a.chain) >= 4
       /\ NodeAbove(a, 1).links = {a.url}
       /\ NodeAbove(a, 1).date = NoRel
       /\ NodeAbove(a, 2).links = {a.url}
       /\ NodeAbove(a, 2).date = NoRel
       /\ NodeAbove(a, 3).links = {a.url}
       /\ NodeAbove(a, 3).date.kind = "date"
       /\ Len(candidates) = 1
       /\ candidates[1].album_url = a.url
       /\ candidates[1].release_date_listing = NodeAbove(a, 3).date.date

\* the number of progress events of a phase emitted so far
EventsOf(phase) ==
    Cardinality({n \in 1..Len(progress) : progress[n].phase = phase})

\* the place of a phase in a run
PhaseRank(phase) ==
    CASE phase = "init" -> 1
      [] phase = "labels" -> 2
      [] phase = "listing" -> 3
      [] phase = "albums" -> 4
      [] phase = "writing" -> 5
      [] OTHER -> 6

\* C27 (as stated): the reporter is invoked once for each listing page that
\* is fetched, before the fetch (a label with k fetched pages produces k
\* listing events), and once for each album fetch.
C27_EventPerListingPage ==
    /\ pc = "awaitListing" => EventsOf("listing") = Len(hist.requests)
    /\ EventsOf("albums") = Len(lane["album"].submitted)

\* C27 (amended): the reporter is invoked once at the start of the run, once
\* before the labels are loaded, once at each label start (before the first
\* page of the label is requested, and not again for its pages), once for
\* each album fetch, before the fetch, once before the output is written
\* (in a dry run too) and once more before the workbook is written (not in
\* a dry run), and once when the run is done; the events come in the order
\* of the phases.
C27_EventPerLabelAndAlbum ==
    /\ EventsOf("listing") = stats.labelsProcessed
    /\ \A n \in 1..Len(hist.requests) :
           hist.requests[n][1] <= EventsOf("listing")
    /\ EventsOf("albums") = stats.albumsFetched
    /\ EventsOf("albums") = Len(lane["album"].submitted)
    /\ EventsOf("init") = (IF hist.configRead THEN 1 ELSE 0)
    /\ EventsOf("labels") = (IF hist.labelsRead THEN 1 ELSE 0)
    /\ EventsOf("writing") =
           (IF pc = "returned" /\ result.ok
            THEN (IF dryRun THEN 1 ELSE 2) ELSE 0)
    /\ EventsOf("done") = (IF pc = "returned" /\ result.ok THEN 1 ELSE 0)
    /\ files # hist.disk0 => EventsOf("writing") = 2
    /\ \A n \in 1..(Len(progress) - 1) :
           PhaseRank(progress[n].phase) <= PhaseRank(progress[n + 1].phase)

\* a written run of one label with two pages requested and two album
\* fetches: one listing event, two album events, two writing events
C27_Witness ==
    /\ pc = "returned" /\ result.ok /\ ~dryRun
    /\ hist.requests = <<<<1, 1>>, <<1, 2>>>>
    /\ EventsOf("listing") = 1
    /\ Len(lane["album"].completed) = 2
    /\ EventsOf("albums") = 2
    /\ EventsOf("writing") = 2
    /\ files # hist.disk0

\* the wait stated for a failure of attempt number n
StatedWait(o, n) ==
    IF o.kind = "response" /\ o.status = 429
    THEN RateLimitBaseMs * Pow2(n - 1)
    ELSE ServerErrorBaseMs * Pow2(n - 1)

\* C28: within one fetchHtml call every backoff wait separates two
\* attempts: the wait after failed attempt k is 2000 * 2^(k-1) ms after a
\* 429 and 1000 * 2^(k-1) ms after a 5xx, a network error or a timeout, and
\* there is no wait after the final attempt: a call sleeps only when
\* another attempt is left.
C28_NoWaitAfterFinalAttempt ==
    \A l \in Lanes :
        fetchSt[l].fpc = "sleep" =>
            /\ Retriable(fetchSt[l].last)
               \/ (fetchSt[l].last.kind = "response"
                   /\ fetchSt[l].last.body = "unreadable")
            /\ fetchSt[l].backoff
                   = StatedWait(fetchSt[l].last, fetchSt[l].attempt)
            /\ fetchSt[l].attempt < cfg.retries

\* C29: every two consecutive HTTP requests sent on one lane, the retry
\* requests of one scheduled fetch included, are separated by at least the
\* lane's configured delay, for every allowed delay.
C29_RequestSpacing ==
    \A l \in Lanes :
        lane[l].requestGap.seen =>
            lane[l].requestGap.ms * FxScale >= LaneDelay(l) * MsPerSecond

\* the HTTP requests the run has sent, on both lanes
RequestsSent == lane["listing"].requestsSent + lane["album"].requestsSent

\* (labels * maxPagesPerLabel + candidatesTotal) * the attempts one fetchHtml
\* call may make; nothing is sent before config and labels have loaded
RequestBound ==
    IF Loaded
    THEN (Len(labels) * cfg.max_pages_per_label + stats.candidatesTotal)
             * cfg.retries
    ELSE 0

LastEventEndsRun ==
    /\ progress # <<>>
    /\ progress[Len(progress)].phase \in {"done", "error"}

\* C30: every run terminates, whatever the labels and whatever the server
\* answers (each request answering, failing or timing out): the run
\* eventually returns with "done" or "error" as its last event, and the number
\* of HTTP requests it sends never exceeds (labels * maxPagesPerLabel +
\* candidatesTotal) * retries.
C30_TerminatesWithinRequestBound ==
    /\ <>[](pc = "returned" /\ result.returned /\ LastEventEndsRun)
    /\ [](RequestsSent <= RequestBound)

\* a finished run that has sent as many requests as the bound allows, on
\* both lanes, some of them retries
C30_Witness ==
    /\ pc = "returned" /\ result.returned /\ LastEventEndsRun
    /\ RequestsSent = RequestBound
    /\ lane["album"].requestsSent > 0
    /\ RequestsSent > Len(lane["listing"].dispatched)
                        + Len(lane["album"].dispatched)

====
